---- MODULE Spec2Model ----
(***************************************************************************)
(* Order status engine of the fulfillment processor                        *)
(* (src/agent-fulfillment-processor/main.py): the transition table, the    *)
(* single-order status update with its notification side effect, and the   *)
(* bulk update.  The order store and the Pub/Sub topic are state; every    *)
(* handler is one action.                                                  *)
(***************************************************************************)
EXTENDS Integers, Sequences, FiniteSets, Bags, TLC

\* ---------------------------------------------------------------- bounds
\* Longest list of order ids handed to bulk_update_status.
MaxBulk == 2
\* Most messages kept on the communication topic.
MaxPub == 2
\* Most update_status calls under way at once.
MaxCalls == 2
\* Most orders in the collection the batch analyzer reads.
MaxOrders == 4
\* Most readings of the microsecond clock modelled within one millisecond.
MaxMicros == 2
\* Most orders of one kind in a collection whose candidates are ranked.
MaxRun == 11

\* ---------------------------------------------------------------- data
\* The eight order statuses.
STATUSES ==
    {"validated", "processing", "paid", "picking", "packed", "shipped",
     "delivered", "exception"}

\* What a caller may send as the new status: any non-empty string.  One
\* string that is no status stands for all of them.
NEW_STATUS_INPUTS == STATUSES \cup {"cancelled"}

\* Document ids of the orders collection a request may name.
ORDER_IDS == {"ORD-1", "ORD-2", "ORD-3"}

\* A document snapshot of an id under which nothing is stored.
AbsentDoc == [exists |-> FALSE]

\* The order document the intake service writes (create_order_object): the
\* fields the status engine reads or writes.
IntakeOrder(order_id, status, t) ==
    [exists |-> TRUE, order_id |-> order_id, status |-> status,
     created_at |-> t, updated_at |-> t, updated_by |-> "unset"]

\* The table with a way back from delivered to shipped.
VALID_TRANSITIONS_returns ==
    ("validated" :> <<"processing", "paid">>) @@
    ("paid" :> <<"picking">>) @@
    ("picking" :> <<"packed">>) @@
    ("packed" :> <<"shipped">>) @@
    ("shipped" :> <<"delivered">>) @@
    ("processing" :> <<"paid", "exception">>) @@
    ("delivered" :> <<"shipped">>)

\* The table without its last entry, 'processing'.
VALID_TRANSITIONS_no_processing ==
    ("validated" :> <<"processing", "paid">>) @@
    ("paid" :> <<"picking">>) @@
    ("picking" :> <<"packed">>) @@
    ("packed" :> <<"shipped">>) @@
    ("shipped" :> <<"delivered">>)

\* The table with a way back out of exception.
VALID_TRANSITIONS_reopen ==
    ("validated" :> <<"processing", "paid">>) @@
    ("paid" :> <<"picking">>) @@
    ("picking" :> <<"packed">>) @@
    ("packed" :> <<"shipped">>) @@
    ("shipped" :> <<"delivered">>) @@
    ("processing" :> <<"paid", "exception">>) @@
    ("exception" :> <<"validated">>)

\* Valid status transitions.
VALID_TRANSITIONS ==
    ("validated" :> <<"processing", "paid">>) @@
    ("paid" :> <<"picking">>) @@
    ("picking" :> <<"packed">>) @@
    ("packed" :> <<"shipped">>) @@
    ("shipped" :> <<"delivered">>) @@
    ("processing" :> <<"paid", "exception">>)

\* x in list
InList(x, list) == \E i \in 1..Len(list) : list[i] = x

\* VALID_TRANSITIONS.get(current, [])
TransitionsFrom(current) ==
    IF current \in DOMAIN VALID_TRANSITIONS THEN VALID_TRANSITIONS[current]
    ELSE <<>>

\* The check left out: every change is let through.
_is_valid_transition_unchecked(current, new) == TRUE

\* The check with the new status looked up among all targets of the table
\* instead of those of the current status.
_is_valid_transition_any_target(current, new) ==
    IF current = new THEN TRUE
    ELSE \E c \in DOMAIN VALID_TRANSITIONS : InList(new, VALID_TRANSITIONS[c])

\* The check without the same-status case.
_is_valid_transition_no_self(current, new) ==
    InList(new, TransitionsFrom(current))

\* OrderProcessor._is_valid_transition
_is_valid_transition(current, new) ==
    IF current = new THEN TRUE
    ELSE InList(new, TransitionsFrom(current))

\* Every status update triggers a communication request.
NOTIFY_STATUSES_every == STATUSES

\* An update to exception triggers a communication request as well.
NOTIFY_STATUSES_exception == {"shipped", "delivered", "exception"}

\* The statuses whose update triggers a communication request.
NOTIFY_STATUSES == {"shipped", "delivered"}

\* OrderProcessor._request_communication: one publish attempt on the
\* communication topic.  pub_ok is whether publish and
\* future.result(timeout=10) succeed; a failure is logged and swallowed and
\* nothing is raised.  (The message's timestamp field is left out.)
_request_communication(order_id, event, pub_ok) ==
    <<[order_id |-> order_id, event |-> event, agent |-> "ADK-002",
       delivered |-> pub_ok]>>

\* The messages that reached the topic among the publish attempts.
RECURSIVE Delivered(_)
Delivered(attempts) ==
    IF attempts = <<>> THEN <<>>
    ELSE (IF Head(attempts).delivered
          THEN <<[order_id |-> Head(attempts).order_id,
                  event |-> Head(attempts).event,
                  agent |-> Head(attempts).agent]>>
          ELSE <<>>) \o Delivered(Tail(attempts))

\* update_status with an update that also renews created_at.
update_status_renews_created(store, order_id, new_status, pub_ok, t) ==
    IF ~store[order_id].exists
    THEN [orders |-> store, attempts |-> <<>>, raised |-> TRUE,
          error |-> "not found", status |-> "none"]
    ELSE IF ~_is_valid_transition(store[order_id].status, new_status)
    THEN [orders |-> store, attempts |-> <<>>, raised |-> TRUE,
          error |-> "Invalid transition", status |-> "none"]
    ELSE [orders |->
              [store EXCEPT ![order_id] =
                  [@ EXCEPT !.status = new_status, !.updated_at = t,
                            !.created_at = t,
                            !.updated_by = "ADK-002"]],
          attempts |->
              IF new_status \in NOTIFY_STATUSES
              THEN _request_communication(order_id, new_status, pub_ok)
              ELSE <<>>,
          raised |-> FALSE, error |-> "none", status |-> new_status]

\* update_status asking for the communication before it looks at the
\* order.
update_status_notify_first(store, order_id, new_status, pub_ok, t) ==
    LET attempts == IF new_status \in NOTIFY_STATUSES
                    THEN _request_communication(order_id, new_status, pub_ok)
                    ELSE <<>>
    IN  IF ~store[order_id].exists
        THEN [orders |-> store, attempts |-> attempts, raised |-> TRUE,
              error |-> "not found", status |-> "none"]
        ELSE IF ~_is_valid_transition(store[order_id].status, new_status)
        THEN [orders |-> store, attempts |-> attempts, raised |-> TRUE,
              error |-> "Invalid transition", status |-> "none"]
        ELSE [orders |->
                  [store EXCEPT ![order_id] =
                      [@ EXCEPT !.status = new_status, !.updated_at = t,
                                !.updated_by = "ADK-002"]],
              attempts |-> attempts,
              raised |-> FALSE, error |-> "none", status |-> new_status]

\* update_status without the existence check: the update creates the
\* document.
update_status_upsert(store, order_id, new_status, pub_ok, t) ==
    IF store[order_id].exists
       /\ ~_is_valid_transition(store[order_id].status, new_status)
    THEN [orders |-> store, attempts |-> <<>>, raised |-> TRUE,
          error |-> "Invalid transition", status |-> "none"]
    ELSE [orders |->
              [store EXCEPT ![order_id] =
                  [exists |-> TRUE, order_id |-> order_id,
                   status |-> new_status,
                   created_at |-> IF @.exists THEN @.created_at ELSE t,
                   updated_at |-> t, updated_by |-> "ADK-002"]],
          attempts |->
              IF new_status \in NOTIFY_STATUSES
              THEN _request_communication(order_id, new_status, pub_ok)
              ELSE <<>>,
          raised |-> FALSE, error |-> "none", status |-> new_status]

\* update_status with the publish failure let through to the caller.
update_status_publish_raises(store, order_id, new_status, pub_ok, t) ==
    IF ~store[order_id].exists
    THEN [orders |-> store, attempts |-> <<>>, raised |-> TRUE,
          error |-> "not found", status |-> "none"]
    ELSE IF ~_is_valid_transition(store[order_id].status, new_status)
    THEN [orders |-> store, attempts |-> <<>>, raised |-> TRUE,
          error |-> "Invalid transition", status |-> "none"]
    ELSE LET attempts ==
                 IF new_status \in NOTIFY_STATUSES
                 THEN _request_communication(order_id, new_status, pub_ok)
                 ELSE <<>>
             failed == attempts # <<>> /\ ~pub_ok
         IN  [orders |->
                  [store EXCEPT ![order_id] =
                      [@ EXCEPT !.status = new_status, !.updated_at = t,
                                !.updated_by = "ADK-002"]],
              attempts |-> attempts,
              raised |-> failed,
              error |-> IF failed THEN "publish failed" ELSE "none",
              status |-> IF failed THEN "none" ELSE new_status]

\* OrderProcessor.update_status on the store `store`: the store afterwards,
\* the publish attempts made, and either the returned value or the raised
\* error.
update_status(store, order_id, new_status, pub_ok, t) ==
    IF ~store[order_id].exists
    THEN [orders |-> store, attempts |-> <<>>, raised |-> TRUE,
          error |-> "not found", status |-> "none"]
    ELSE IF ~_is_valid_transition(store[order_id].status, new_status)
    THEN [orders |-> store, attempts |-> <<>>, raised |-> TRUE,
          error |-> "Invalid transition", status |-> "none"]
    ELSE [orders |->
              [store EXCEPT ![order_id] =
                  [@ EXCEPT !.status = new_status, !.updated_at = t,
                            !.updated_by = "ADK-002"]],
          attempts |->
              IF new_status \in NOTIFY_STATUSES
              THEN _request_communication(order_id, new_status, pub_ok)
              ELSE <<>>,
          raised |-> FALSE, error |-> "none", status |-> new_status]

\* The loop with the success counted before update_status is called.
RECURSIVE bulk_loop_count_first(_, _, _, _, _, _)
bulk_loop_count_first(acc, order_ids, i, new_status, pub_ok, t) ==
    IF i > Len(order_ids) THEN acc
    ELSE LET order_id == order_ids[i]
             r == update_status(acc.orders, order_id, new_status, pub_ok[i], t)
         IN  bulk_loop_count_first(
                 [orders |-> r.orders,
                  attempts |-> acc.attempts \o r.attempts,
                  results |-> Append(acc.results,
                      IF r.raised
                      THEN [order_id |-> order_id, success |-> FALSE,
                            error |-> r.error]
                      ELSE [order_id |-> order_id, success |-> TRUE,
                            error |-> "none"]),
                  success_count |-> acc.success_count + 1,
                  calls |-> Append(acc.calls, order_id)],
                 order_ids, i + 1, new_status, pub_ok, t)

\* The loop left at the first failing member.
RECURSIVE bulk_loop_stop_on_error(_, _, _, _, _, _)
bulk_loop_stop_on_error(acc, order_ids, i, new_status, pub_ok, t) ==
    IF i > Len(order_ids) THEN acc
    ELSE LET order_id == order_ids[i]
             r == update_status(acc.orders, order_id, new_status, pub_ok[i], t)
             next ==
                 [orders |-> r.orders,
                  attempts |-> acc.attempts \o r.attempts,
                  results |-> Append(acc.results,
                      IF r.raised
                      THEN [order_id |-> order_id, success |-> FALSE,
                            error |-> r.error]
                      ELSE [order_id |-> order_id, success |-> TRUE,
                            error |-> "none"]),
                  success_count |->
                      acc.success_count + (IF r.raised THEN 0 ELSE 1),
                  calls |-> Append(acc.calls, order_id)]
         IN  IF r.raised THEN next
             ELSE bulk_loop_stop_on_error(next, order_ids, i + 1, new_status,
                                          pub_ok, t)

\* The loop with each per-order result put in front of the earlier ones.
RECURSIVE bulk_loop_prepend(_, _, _, _, _, _)
bulk_loop_prepend(acc, order_ids, i, new_status, pub_ok, t) ==
    IF i > Len(order_ids) THEN acc
    ELSE LET order_id == order_ids[i]
             r == update_status(acc.orders, order_id, new_status, pub_ok[i], t)
         IN  bulk_loop_prepend(
                 [orders |-> r.orders,
                  attempts |-> acc.attempts \o r.attempts,
                  results |->
                      <<IF r.raised
                        THEN [order_id |-> order_id, success |-> FALSE,
                              error |-> r.error]
                        ELSE [order_id |-> order_id, success |-> TRUE,
                              error |-> "none"]>> \o acc.results,
                  success_count |->
                      acc.success_count + (IF r.raised THEN 0 ELSE 1),
                  calls |-> Append(acc.calls, order_id)],
                 order_ids, i + 1, new_status, pub_ok, t)

\* One pass of the loop of bulk_update_status over order_ids[i..]: acc holds
\* the store, the publish attempts, the per-order results, the success
\* count and the ids update_status was called with so far.  A per-order
\* result of a success has no error key; it is "none" here.
RECURSIVE bulk_loop(_, _, _, _, _, _)
bulk_loop(acc, order_ids, i, new_status, pub_ok, t) ==
    IF i > Len(order_ids) THEN acc
    ELSE LET order_id == order_ids[i]
             r == update_status(acc.orders, order_id, new_status, pub_ok[i], t)
         IN  bulk_loop(
                 [orders |-> r.orders,
                  attempts |-> acc.attempts \o r.attempts,
                  results |-> Append(acc.results,
                      IF r.raised
                      THEN [order_id |-> order_id, success |-> FALSE,
                            error |-> r.error]
                      ELSE [order_id |-> order_id, success |-> TRUE,
                            error |-> "none"]),
                  success_count |->
                      acc.success_count + (IF r.raised THEN 0 ELSE 1),
                  calls |-> Append(acc.calls, order_id)],
                 order_ids, i + 1, new_status, pub_ok, t)

\* OrderProcessor.bulk_update_status: the store afterwards, the publish
\* attempts made and the returned summary.
bulk_update_status(store, order_ids, new_status, pub_ok, t) ==
    LET acc == bulk_loop([orders |-> store, attempts |-> <<>>,
                          results |-> <<>>, success_count |-> 0,
                          calls |-> <<>>],
                         order_ids, 1, new_status, pub_ok, t)
    IN  [orders |-> acc.orders, attempts |-> acc.attempts,
         calls |-> acc.calls,
         total |-> Len(order_ids),
         success |-> acc.success_count,
         failed |-> Len(order_ids) - acc.success_count,
         results |-> acc.results]

\* ---------------------------------------------------------------- state
VARIABLES
    orders,     \* the orders collection: document id -> document
    published,  \* the messages on the communication topic, in order
    now,        \* the wall clock
    last,       \* the request being answered: its inputs, the store and
                \* the topic it started from and its response; or NoCall
    batches,    \* the batches collection: document id -> document
    suggested,  \* what the last suggest_batches call computed
    inflight,   \* the requests under way: update_status calls that have
                \* read and not yet written, intakes validated and not
                \* yet saved
    seen        \* under concurrent updates: order id -> the statuses its
                \* document has held

vars == <<orders, published, now, last, batches, suggested, inflight, seen>>

\* Document ids of the batches collection.
BATCH_IDS == {"BATCH-1", "BATCH-2"}

\* The batches collection with nothing stored.
NoBatches == [b \in BATCH_IDS |-> AbsentDoc]

\* No suggest_batches call has been made.
NoSuggestion == [called |-> FALSE]

\* No update_status call is under way.
NoInflight == EmptyBag

\* No status is recorded.
NoSeen == [o \in ORDER_IDS |-> {}]

\* No request is being answered.
NoCall ==
    [op |-> "none", order_ids |-> <<>>, new_status |-> "none",
     raised |-> FALSE, error |-> "none", status |-> "none",
     total |-> 0, success |-> 0, failed |-> 0, results |-> <<>>,
     calls |-> <<>>, attempts |-> <<>>,
     pre |-> [o \in ORDER_IDS |-> AbsentDoc], pre_pub |-> <<>>,
     batch_id |-> "none", pre_batches |-> NoBatches, batch |-> AbsentDoc,
     db_ok |-> TRUE, response |-> [code |-> 0, body |-> [error |-> "none"]]]

\* The outcomes of the publishes of one request over n order ids: one per
\* position.  They are read only where a publish is made.
PubOutcomes(n, new_status) ==
    IF new_status \in NOTIFY_STATUSES THEN [1..n -> BOOLEAN]
    ELSE {[i \in 1..n |-> TRUE]}

\* Lists of at most MaxBulk order ids.
OrderIdLists == UNION {[1..n -> ORDER_IDS] : n \in 0..MaxBulk}

\* The store as intake left it at time 0: ORD-1 and ORD-2 each hold an order
\* that intake created as validated or as exception; nothing is stored
\* under ORD-3.  The requests of a run are handled at one later reading of
\* the clock, so every write of the engine stamps updated_at = now, which
\* differs from the time intake stamped.
Init ==
    /\ orders \in [ORDER_IDS -> {AbsentDoc} \cup
                     {IntakeOrder(o, s, 0) : o \in ORDER_IDS,
                                             s \in {"validated", "exception"}}]
    /\ orders["ORD-1"].exists /\ orders["ORD-2"].exists
    /\ ~orders["ORD-3"].exists
    /\ \A o \in ORDER_IDS : orders[o].exists => orders[o].order_id = o
    /\ published = <<>>
    /\ now = 1
    /\ last = NoCall
    /\ batches = NoBatches
    /\ suggested = NoSuggestion
    /\ inflight = NoInflight
    /\ seen = NoSeen

\* PUT /api/orders/<order_id>/status -> OrderProcessor.update_status
UpdateStatus ==
    /\ last.op = "none"
    /\ \E order_id \in ORDER_IDS, new_status \in NEW_STATUS_INPUTS :
       \E pub_ok \in PubOutcomes(1, new_status) :
        LET r == update_status(orders, order_id, new_status, pub_ok[1], now) IN
        /\ Len(published) + Len(Delivered(r.attempts)) <= MaxPub
        /\ orders' = r.orders
        /\ published' = published \o Delivered(r.attempts)
        /\ last' = [NoCall EXCEPT !.op = "update_status",
                                  !.order_ids = <<order_id>>,
                                  !.new_status = new_status,
                                  !.raised = r.raised,
                                  !.error = r.error,
                                  !.status = r.status,
                                  !.calls = <<order_id>>,
                                  !.attempts = r.attempts,
                                  !.pre = orders,
                                  !.pre_pub = published,
                                  !.pre_batches = batches]
    /\ UNCHANGED <<now, batches, suggested, inflight, seen>>

\* OrderProcessor.bulk_update_status over a list of order ids
BulkUpdateStatus ==
    /\ last.op = "none"
    /\ \E order_ids \in OrderIdLists, new_status \in NEW_STATUS_INPUTS :
       \E pub_ok \in PubOutcomes(Len(order_ids), new_status) :
        LET r == bulk_update_status(orders, order_ids, new_status, pub_ok,
                                    now) IN
        /\ Len(published) + Len(Delivered(r.attempts)) <= MaxPub
        /\ orders' = r.orders
        /\ published' = published \o Delivered(r.attempts)
        /\ last' = [NoCall EXCEPT !.op = "bulk_update_status",
                                  !.order_ids = order_ids,
                                  !.new_status = new_status,
                                  !.total = r.total,
                                  !.success = r.success,
                                  !.failed = r.failed,
                                  !.results = r.results,
                                  !.calls = r.calls,
                                  !.attempts = r.attempts,
                                  !.pre = orders,
                                  !.pre_pub = published,
                                  !.pre_batches = batches]
    /\ UNCHANGED <<now, batches, suggested, inflight, seen>>

\* The response has gone to the caller; the next request can be taken.
Respond ==
    /\ last.op # "none"
    /\ last' = NoCall
    /\ UNCHANGED <<orders, published, now, batches, suggested, inflight, seen>>

Next == UpdateStatus \/ BulkUpdateStatus \/ Respond

Spec == Init /\ [][Next]_vars

\* ---------------------------------------------------------------- pipeline
\* Intake, exception resolution and the status engine on one store, with the
\* clock running.

\* The order id create_order_object makes at clock reading t: "ORD-" and the
\* time to the millisecond, so one id per reading of the clock.
ORDER_ID_AT == <<"ORD-1", "ORD-2">>

\* create_order_object: the order of an intake whose validation passed or
\* failed, made at time t.
create_order_object(passed, t) ==
    IntakeOrder(ORDER_ID_AT[t], IF passed THEN "validated" ELSE "exception", t)

\* save_to_firestore: doc_ref.set(order) under the order's id, replacing
\* whatever is stored there.
save_to_firestore(store, order) ==
    [store EXCEPT ![order.order_id] = order]

\* resolve_exception: the update of the order document, whatever its
\* status; the update of a document that does not exist fails and writes
\* nothing.
resolve_exception(store, order_id, notes, t) ==
    IF ~store[order_id].exists THEN store
    ELSE [store EXCEPT ![order_id] =
             [exception_resolved |-> TRUE, resolution_notes |-> notes,
              resolved_at |-> t, resolved_by |-> "ADK-003"]
             @@ [@ EXCEPT !.status = "validated"]]

\* Nothing is stored yet.
PipelineInit ==
    /\ orders = [o \in ORDER_IDS |-> AbsentDoc]
    /\ published = <<>>
    /\ now = 1
    /\ last = NoCall
    /\ batches = NoBatches
    /\ suggested = NoSuggestion
    /\ inflight = NoInflight
    /\ seen = NoSeen

\* Time passes, as far as there are order ids.
Tick ==
    /\ now < Len(ORDER_ID_AT)
    /\ now' = now + 1
    /\ UNCHANGED <<orders, published, last, batches, suggested, inflight, seen>>

\* POST /api/intake -> intake_order
Intake ==
    /\ \E passed \in BOOLEAN :
          orders' = save_to_firestore(orders, create_order_object(passed, now))
    /\ UNCHANGED <<published, now, last, batches, suggested, inflight, seen>>

\* POST /api/exceptions/<order_id>/resolve -> resolve_exception
ResolveException ==
    /\ \E order_id \in ORDER_IDS :
          orders' = resolve_exception(orders, order_id, "", now)
    /\ UNCHANGED <<published, now, last, batches, suggested, inflight, seen>>

\* OrderProcessor.update_status with the communication topic out of reach:
\* every publish fails and is swallowed, so the store is all that changes.
ApplyStatus ==
    /\ \E order_id \in ORDER_IDS, new_status \in NEW_STATUS_INPUTS :
          orders' = update_status(orders, order_id, new_status, FALSE,
                                  now).orders
    /\ UNCHANGED <<published, now, last, batches, suggested, inflight, seen>>

\* OrderProcessor.bulk_update_status, called with a list of order ids or
\* with the order ids of a batch, with the communication topic out of
\* reach.
ApplyBulk ==
    /\ \E order_ids \in OrderIdLists, new_status \in NEW_STATUS_INPUTS :
          orders' = bulk_update_status(orders, order_ids, new_status,
                                       [i \in 1..Len(order_ids) |-> FALSE],
                                       now).orders
    /\ UNCHANGED <<published, now, last, batches, suggested, inflight, seen>>

PipelineNext ==
    Tick \/ Intake \/ ResolveException \/ ApplyStatus \/ ApplyBulk

SpecPipeline == PipelineInit /\ [][PipelineNext]_vars

\* ---------------------------------------------------------------- intake clock
\* The three services on one store under a clock read to the microsecond:
\* the order id is made from the time cut to the millisecond, created_at
\* and updated_at from the time in full.

\* The millisecond that reading t of the microsecond clock falls in.
Millisecond(t) == ((t - 1) \div MaxMicros) + 1

\* create_order_object at reading t of the microsecond clock: order_id
\* from strftime(...)[:17], created_at and updated_at from
\* datetime.now().isoformat().
create_order_object_at(passed, t) ==
    [create_order_object(passed, Millisecond(t)) EXCEPT !.created_at = t,
                                                        !.updated_at = t]

\* The clock moves on to its next reading, as far as there are order ids.
MicroTick ==
    /\ Millisecond(now + 1) <= Len(ORDER_ID_AT)
    /\ now' = now + 1
    /\ UNCHANGED <<orders, published, last, batches, suggested, inflight, seen>>

\* POST /api/intake -> intake_order
IntakeAt ==
    /\ \E passed \in BOOLEAN :
          orders' = save_to_firestore(orders,
                                      create_order_object_at(passed, now))
    /\ UNCHANGED <<published, now, last, batches, suggested, inflight, seen>>

IntakeClockNext ==
    MicroTick \/ IntakeAt \/ ResolveException \/ ApplyStatus \/ ApplyBulk

SpecIntakeClock == PipelineInit /\ [][IntakeClockNext]_vars

\* ---------------------------------------------------------------- concurrency
\* update_status calls of concurrent requests on one store.  A call reads
\* the document and validates, and later writes; other calls run between
\* the two.  The communication topic is out of reach, as above.

\* The write with a version check: it goes through only while the stored
\* status is still the one the call read.
update_status_write_if_unchanged(store, order_id, new_status, current_status, t) ==
    IF store[order_id].status # current_status THEN store
    ELSE [store EXCEPT ![order_id] =
             [@ EXCEPT !.status = new_status, !.updated_at = t,
                       !.updated_by = "ADK-002"]]

\* update_status reading the document and validating nothing.
update_status_read_unvalidated(store, order_id, new_status) ==
    IF ~store[order_id].exists
    THEN [raised |-> TRUE, error |-> "not found", current_status |-> "none"]
    ELSE [raised |-> FALSE, error |-> "none",
          current_status |-> store[order_id].status]

\* update_status up to its validation: doc_ref.get(), the existence check
\* and _is_valid_transition on the status read.
update_status_read(store, order_id, new_status) ==
    IF ~store[order_id].exists
    THEN [raised |-> TRUE, error |-> "not found", current_status |-> "none"]
    ELSE IF ~_is_valid_transition(store[order_id].status, new_status)
    THEN [raised |-> TRUE, error |-> "Invalid transition",
          current_status |-> store[order_id].status]
    ELSE [raised |-> FALSE, error |-> "none",
          current_status |-> store[order_id].status]

\* update_status from doc_ref.update on: the write of a call that read
\* current_status.  The status read is not looked at again.
update_status_write(store, order_id, new_status, current_status, t) ==
    [store EXCEPT ![order_id] =
        [@ EXCEPT !.status = new_status, !.updated_at = t,
                  !.updated_by = "ADK-002"]]

\* One order is stored, as validated.
ConcInit ==
    /\ orders = [o \in ORDER_IDS |->
                    IF o = "ORD-1" THEN IntakeOrder(o, "validated", 0)
                    ELSE AbsentDoc]
    /\ published = <<>>
    /\ now = 1
    /\ last = NoCall
    /\ batches = NoBatches
    /\ suggested = NoSuggestion
    /\ inflight = NoInflight
    /\ seen = [o \in ORDER_IDS |->
                  IF orders[o].exists THEN {orders[o].status} ELSE {}]

\* A request enters update_status, reads and validates.  A call that is
\* refused raises and is over; one that passes is under way.
BeginUpdate ==
    /\ BagCardinality(inflight) < MaxCalls
    /\ \E order_id \in ORDER_IDS, new_status \in NEW_STATUS_INPUTS :
          LET r == update_status_read(orders, order_id, new_status) IN
          IF r.raised THEN UNCHANGED inflight
          ELSE inflight' = inflight (+)
                  SetToBag({[order_id |-> order_id, new_status |-> new_status,
                             current_status |-> r.current_status]})
    /\ UNCHANGED <<orders, published, now, last, batches, suggested, seen>>

\* A call under way writes and returns success.
CommitUpdate ==
    /\ \E call \in BagToSet(inflight) :
          /\ orders' = update_status_write(orders, call.order_id,
                                           call.new_status,
                                           call.current_status, now)
          /\ inflight' = inflight (-) SetToBag({call})
          /\ last' = [NoCall EXCEPT !.op = "update_status",
                                    !.order_ids = <<call.order_id>>,
                                    !.new_status = call.new_status,
                                    !.status = call.new_status,
                                    !.calls = <<call.order_id>>,
                                    !.pre = orders]
          /\ seen' = [seen EXCEPT ![call.order_id] = @ \cup {call.new_status}]
    /\ UNCHANGED <<published, now, batches, suggested>>

ConcNext == BeginUpdate \/ CommitUpdate

SpecConc == ConcInit /\ [][ConcNext]_vars

\* ---------------------------------------------------------------- batches
\* Batch creation and order intake under a clock: identifiers are made
\* from the reading of the clock, cut to the millisecond.

\* The batch id made at clock reading t: "BATCH-" and the first 17
\* characters of the timestamp.  One reading gives one id.
BATCH_ID_AT == <<"BATCH-1", "BATCH-2">>

\* Request bodies of the create route: name, order_ids and, in some, type.
BATCH_NAMES == {"Morning run", "CA Orders"}
BATCH_ORDER_ID_LISTS == {<<>>, <<"ORD-1">>, <<"ORD-2", "ORD-1">>}
BatchData ==
    [name : BATCH_NAMES, order_ids : BATCH_ORDER_ID_LISTS]
    \cup [name : BATCH_NAMES, order_ids : BATCH_ORDER_ID_LISTS,
          type : {"region"}]

\* create_batch counting the distinct order ids.
create_batch_counts_distinct(store, batch_data, t) ==
    LET batch_id == BATCH_ID_AT[t]
        batch_doc ==
            [exists |-> TRUE,
             batch_id |-> batch_id,
             name |-> batch_data.name,
             description |-> IF "description" \in DOMAIN batch_data
                             THEN batch_data.description ELSE "",
             type |-> IF "type" \in DOMAIN batch_data THEN batch_data.type
                      ELSE "manual",
             order_ids |-> batch_data.order_ids,
             order_count |->
                 Cardinality({batch_data.order_ids[i] :
                                 i \in 1..Len(batch_data.order_ids)}),
             status |-> "active",
             created_at |-> t,
             created_by |-> "ADK-002"]
    IN  [batches |-> [store EXCEPT ![batch_id] = batch_doc],
         batch_id |-> batch_id]

\* BatchAnalyzer.create_batch: the document is set under the id made from
\* the clock; set() replaces whatever is stored under that id.
create_batch(store, batch_data, t) ==
    LET batch_id == BATCH_ID_AT[t]
        batch_doc ==
            [exists |-> TRUE,
             batch_id |-> batch_id,
             name |-> batch_data.name,
             description |-> IF "description" \in DOMAIN batch_data
                             THEN batch_data.description ELSE "",
             type |-> IF "type" \in DOMAIN batch_data THEN batch_data.type
                      ELSE "manual",
             order_ids |-> batch_data.order_ids,
             order_count |-> Len(batch_data.order_ids),
             status |-> "active",
             created_at |-> t,
             created_by |-> "ADK-002"]
    IN  [batches |-> [store EXCEPT ![batch_id] = batch_doc],
         batch_id |-> batch_id]

\* Nothing is stored; the clock reads 1.
BatchInit ==
    /\ orders = [o \in ORDER_IDS |-> AbsentDoc]
    /\ published = <<>>
    /\ now = 1
    /\ last = NoCall
    /\ batches = NoBatches
    /\ suggested = NoSuggestion
    /\ inflight = NoInflight
    /\ seen = NoSeen

\* The clock moves on to its next millisecond.
BatchTick ==
    /\ now < Len(BATCH_ID_AT)
    /\ now' = now + 1
    /\ last' = NoCall
    /\ UNCHANGED <<orders, published, batches, suggested, inflight, seen>>

\* POST /api/batches/create: a body without order ids is answered 400;
\* otherwise the batch is created and its id returned.
CreateBatch ==
    /\ \E batch_data \in BatchData :
          IF batch_data.order_ids = <<>>
          THEN /\ last' = [NoCall EXCEPT !.op = "create_batch",
                                         !.order_ids = batch_data.order_ids,
                                         !.raised = TRUE,
                                         !.error = "order_ids required",
                                         !.pre_batches = batches]
               /\ UNCHANGED batches
          ELSE LET r == create_batch(batches, batch_data, now) IN
               /\ batches' = r.batches
               /\ last' = [NoCall EXCEPT !.op = "create_batch",
                                         !.order_ids = batch_data.order_ids,
                                         !.batch_id = r.batch_id,
                                         !.pre_batches = batches]
    /\ UNCHANGED <<orders, published, now, suggested, inflight, seen>>

\* POST /api/intake of an order that passes or fails validation.
BatchIntake ==
    /\ \E passed \in BOOLEAN :
          LET order == create_order_object(passed, now) IN
          /\ orders' = save_to_firestore(orders, order)
          /\ last' = [NoCall EXCEPT !.op = "intake",
                                    !.order_ids = <<order.order_id>>,
                                    !.status = order.status,
                                    !.pre = orders]
    /\ UNCHANGED <<published, now, batches, suggested, inflight, seen>>

BatchNext == BatchTick \/ CreateBatch \/ BatchIntake

SpecBatch == BatchInit /\ [][BatchNext]_vars

\* ---------------------------------------------------------------- batch status
\* The routes that read a stored batch: GET /api/batches/<batch_id> and
\* POST /api/batches/<batch_id>/update-status.

\* What bulk_update_status returns for no order ids.
NoBulk ==
    [attempts |-> <<>>, calls |-> <<>>, total |-> 0, success |-> 0,
     failed |-> 0, results |-> <<>>]

\* The status route closing the batch once every member succeeded.
batch_update_status_closes_batch(bstore, store, batch_id, new_status, pub_ok, t) ==
    IF ~bstore[batch_id].exists
    THEN [raised |-> TRUE, error |-> "Batch not found", batches |-> bstore,
          orders |-> store, passed |-> <<>>] @@ NoBulk
    ELSE LET order_ids == bstore[batch_id].order_ids
             r == bulk_update_status(store, order_ids, new_status, pub_ok, t)
         IN  [raised |-> FALSE, error |-> "none",
              batches |-> IF r.failed = 0
                          THEN [bstore EXCEPT ![batch_id].status = "completed"]
                          ELSE bstore,
              passed |-> order_ids] @@ r

\* The status route taking an absent batch for one without members.
batch_update_status_absent_is_empty(bstore, store, batch_id, new_status, pub_ok, t) ==
    LET order_ids == IF bstore[batch_id].exists
                     THEN bstore[batch_id].order_ids ELSE <<>>
        r == bulk_update_status(store, order_ids, new_status, pub_ok, t)
    IN  [raised |-> FALSE, error |-> "none", batches |-> bstore,
         passed |-> order_ids] @@ r

\* The route bulk_update_status(batch_id): 404 when no batch is stored
\* under the id; otherwise OrderProcessor.bulk_update_status runs over the
\* order_ids of the stored batch and its result is returned.
batch_update_status(bstore, store, batch_id, new_status, pub_ok, t) ==
    IF ~bstore[batch_id].exists
    THEN [raised |-> TRUE, error |-> "Batch not found", batches |-> bstore,
          orders |-> store, passed |-> <<>>] @@ NoBulk
    ELSE LET order_ids == bstore[batch_id].order_ids
             r == bulk_update_status(store, order_ids, new_status, pub_ok, t)
         IN  [raised |-> FALSE, error |-> "none", batches |-> bstore,
              passed |-> order_ids] @@ r

\* The route get_batch: 404 when no batch is stored under the id, else the
\* stored document.
get_batch(bstore, batch_id) ==
    IF ~bstore[batch_id].exists
    THEN [raised |-> TRUE, error |-> "Batch not found", batch |-> AbsentDoc]
    ELSE [raised |-> FALSE, error |-> "none", batch |-> bstore[batch_id]]

\* Member lists of the batch stored at the start.
STORED_ORDER_ID_LISTS ==
    {<<"ORD-1">>, <<"ORD-2", "ORD-1">>, <<"ORD-3", "ORD-1">>}

\* Orders as intake left them at time 0 (see Init); at time 1 at most one
\* batch was created; the clock reads 2.
BatchStatusInit ==
    /\ orders \in [ORDER_IDS -> {AbsentDoc} \cup
                     {IntakeOrder(o, s, 0) : o \in ORDER_IDS,
                                             s \in {"validated", "exception"}}]
    /\ orders["ORD-1"].exists /\ orders["ORD-2"].exists
    /\ ~orders["ORD-3"].exists
    /\ \A o \in ORDER_IDS : orders[o].exists => orders[o].order_id = o
    /\ published = <<>>
    /\ now = 2
    /\ last = NoCall
    /\ \/ batches = NoBatches
       \/ \E order_ids \in STORED_ORDER_ID_LISTS :
             batches = create_batch(NoBatches,
                                    [name |-> "Morning run",
                                     order_ids |-> order_ids], 1).batches
    /\ suggested = NoSuggestion
    /\ inflight = NoInflight
    /\ seen = NoSeen

\* GET /api/batches/<batch_id>
GetBatch ==
    /\ last.op = "none"
    /\ \E batch_id \in BATCH_IDS :
          LET r == get_batch(batches, batch_id) IN
          last' = [NoCall EXCEPT !.op = "get_batch",
                                 !.batch_id = batch_id,
                                 !.raised = r.raised,
                                 !.error = r.error,
                                 !.batch = r.batch,
                                 !.pre = orders,
                                 !.pre_pub = published,
                                 !.pre_batches = batches]
    /\ UNCHANGED <<orders, published, now, batches, suggested, inflight, seen>>

\* POST /api/batches/<batch_id>/update-status
BatchUpdateStatus ==
    /\ last.op = "none"
    /\ \E batch_id \in BATCH_IDS, new_status \in NEW_STATUS_INPUTS :
       \E pub_ok \in PubOutcomes(IF batches[batch_id].exists
                                 THEN Len(batches[batch_id].order_ids)
                                 ELSE 0, new_status) :
        LET r == batch_update_status(batches, orders, batch_id, new_status,
                                     pub_ok, now) IN
        /\ Len(published) + Len(Delivered(r.attempts)) <= MaxPub
        /\ orders' = r.orders
        /\ batches' = r.batches
        /\ published' = published \o Delivered(r.attempts)
        /\ last' = [NoCall EXCEPT !.op = "batch_update_status",
                                  !.batch_id = batch_id,
                                  !.order_ids = r.passed,
                                  !.new_status = new_status,
                                  !.raised = r.raised,
                                  !.error = r.error,
                                  !.total = r.total,
                                  !.success = r.success,
                                  !.failed = r.failed,
                                  !.results = r.results,
                                  !.calls = r.calls,
                                  !.attempts = r.attempts,
                                  !.pre = orders,
                                  !.pre_pub = published,
                                  !.pre_batches = batches]
    /\ UNCHANGED <<now, suggested, inflight, seen>>

BatchStatusNext == GetBatch \/ BatchUpdateStatus \/ Respond

SpecBatchStatus == BatchStatusInit /\ [][BatchStatusNext]_vars

\* The status engine on a store that holds a batch: ORD-1 and ORD-2 are
\* stored, and a batch made at reading 1 of the clock lists ORD-2 and
\* ORD-1.
FrameInit ==
    /\ BatchStatusInit
    /\ \E b \in BATCH_IDS :
          batches[b].exists /\ batches[b].order_ids = <<"ORD-2", "ORD-1">>

FrameNext == UpdateStatus \/ BulkUpdateStatus \/ Respond

SpecFrame == FrameInit /\ [][FrameNext]_vars

\* ---------------------------------------------------------------- suggestions
\* BatchAnalyzer over a collection of orders.  The collection is the
\* sequence of its documents in the order the query streams them; times
\* are in hours and savings_minutes and scores in quarters of a minute, so
\* that 1.5 minutes per order and the factor 1.5 stay whole numbers.

\* .limit(100) of the query.
QUERY_LIMIT == 100
\* ranked_batches[:10].
TOP_BATCHES == 10
\* Least size of a region group and of a product group.
MIN_GROUP == 3
\* Least number of urgent orders.
MIN_URGENT == 2
\* Least age, in hours, of an urgent order.
URGENT_AGE_HOURS == 6
\* A batch of more orders than this scores 1.5 times as much.
LARGE_COUNT == 10

Min(a, b) == IF a <= b THEN a ELSE b

\* s[:n]
Take(s, n) == SubSeq(s, 1, Min(n, Len(s)))

\* The keys of a dict filled in the order of keys: each once, in the order
\* of first insertion.
RECURSIVE DictKeys(_)
DictKeys(keys) ==
    IF keys = <<>> THEN <<>>
    ELSE LET rest == DictKeys(SubSeq(keys, 1, Len(keys) - 1))
             k == keys[Len(keys)]
         IN  IF \E i \in 1..Len(rest) : rest[i] = k THEN rest
             ELSE Append(rest, k)

\* What stands for the KeyError that o['order_id'] raises on an order
\* without that key.
KEY_ERROR == <<"KeyError", "order_id">>

\* [o['order_id'] for o in orders]
OrderIdsOf(seq) ==
    [i \in 1..Len(seq) |->
        IF "order_id" \in DOMAIN seq[i] THEN seq[i].order_id ELSE KEY_ERROR]

\* Whether building these candidates raised KeyError.
KeyErrorIn(batches_) ==
    \E k \in 1..Len(batches_) :
       \E i \in 1..Len(batches_[k].order_ids) :
          batches_[k].order_ids[i] = KEY_ERROR

\* order.get('address', {}).get('state'); "None" where a key is missing.
StateOf(order) ==
    IF "address" \in DOMAIN order /\ "state" \in DOMAIN order.address
    THEN order.address.state
    ELSE "None"

\* Python truth of a string or None.
Truthy(v) == v \notin {"None", ""}

\* The region strategy with the size test turned round.
_batch_by_region_small_groups(orders_) ==
    LET all == [i \in 1..Len(orders_) |-> StateOf(orders_[i])]
        by_state_keys == DictKeys(SelectSeq(all, Truthy))
        by_state(state) == SelectSeq(orders_, LAMBDA o : StateOf(o) = state)
        emitted == SelectSeq(by_state_keys,
                             LAMBDA state : Len(by_state(state)) < MIN_GROUP)
    IN  [k \in 1..Len(emitted) |->
            [type |-> "region",
             name |-> <<emitted[k], " Orders">>,
             description |-> <<Len(by_state(emitted[k])), " orders to ",
                               emitted[k]>>,
             orders |-> by_state(emitted[k]),
             order_ids |-> OrderIdsOf(by_state(emitted[k])),
             count |-> Len(by_state(emitted[k])),
             savings_minutes |-> Len(by_state(emitted[k])) * 2 * 4]]

\* BatchAnalyzer._batch_by_region: orders grouped by address.state, orders
\* without one left out; one candidate per group of at least 3, in the
\* order the states first occur.
_batch_by_region(orders_) ==
    LET all == [i \in 1..Len(orders_) |-> StateOf(orders_[i])]
        by_state_keys == DictKeys(SelectSeq(all, Truthy))
        by_state(state) == SelectSeq(orders_, LAMBDA o : StateOf(o) = state)
        emitted == SelectSeq(by_state_keys,
                             LAMBDA state : Len(by_state(state)) >= MIN_GROUP)
    IN  [k \in 1..Len(emitted) |->
            [type |-> "region",
             name |-> <<emitted[k], " Orders">>,
             description |-> <<Len(by_state(emitted[k])), " orders to ",
                               emitted[k]>>,
             orders |-> by_state(emitted[k]),
             order_ids |-> OrderIdsOf(by_state(emitted[k])),
             count |-> Len(by_state(emitted[k])),
             savings_minutes |-> Len(by_state(emitted[k])) * 2 * 4]]

\* datetime.isoformat() of the time h hours on: a string that
\* datetime.fromisoformat reads back.
isoformat(h) == [iso |-> TRUE, hour |-> h]

\* A string that is no ISO timestamp.
NOT_A_DATE == [iso |-> FALSE, text |-> "not-a-date"]

\* Whether datetime.fromisoformat accepts the string; it raises ValueError
\* otherwise.
Parses(string) == string.iso

\* datetime.fromisoformat of a string it accepts.
fromisoformat(string) == string.hour

\* order.get('created_at', datetime.now().isoformat())
CreatedAtOf(order, t) ==
    IF "created_at" \in DOMAIN order THEN order.created_at ELSE isoformat(t)

\* Whether the urgency strategy raised ValueError: it parses created_at of
\* every order of the working set.
ValueErrorIn(orders_, t) ==
    \E i \in 1..Len(orders_) : ~Parses(CreatedAtOf(orders_[i], t))

\* The urgency strategy taking only orders strictly older than 6 hours.
_batch_by_urgency_older(orders_, t) ==
    LET urgent_orders ==
            SelectSeq(orders_,
                      LAMBDA o : /\ Parses(CreatedAtOf(o, t))
                                 /\ t - fromisoformat(CreatedAtOf(o, t))
                                       > URGENT_AGE_HOURS)
    IN  IF Len(urgent_orders) >= MIN_URGENT
        THEN <<[type |-> "urgency",
                name |-> <<"Urgent Orders">>,
                description |-> <<Len(urgent_orders),
                                  " orders need immediate attention">>,
                orders |-> urgent_orders,
                order_ids |-> OrderIdsOf(urgent_orders),
                count |-> Len(urgent_orders),
                savings_minutes |-> Len(urgent_orders) * 3 * 4,
                priority |-> "high"]>>
        ELSE <<>>

\* BatchAnalyzer._batch_by_urgency at clock reading t: the orders at least
\* 6 hours old, as one candidate when there are at least 2.
_batch_by_urgency(orders_, t) ==
    LET urgent_orders ==
            SelectSeq(orders_,
                      LAMBDA o : /\ Parses(CreatedAtOf(o, t))
                                 /\ t - fromisoformat(CreatedAtOf(o, t))
                                       >= URGENT_AGE_HOURS)
    IN  IF Len(urgent_orders) >= MIN_URGENT
        THEN <<[type |-> "urgency",
                name |-> <<"Urgent Orders">>,
                description |-> <<Len(urgent_orders),
                                  " orders need immediate attention">>,
                orders |-> urgent_orders,
                order_ids |-> OrderIdsOf(urgent_orders),
                count |-> Len(urgent_orders),
                savings_minutes |-> Len(urgent_orders) * 3 * 4,
                priority |-> "high"]>>
        ELSE <<>>

\* order.get('items', [])
ItemsOf(order) == IF "items" \in DOMAIN order THEN order.items ELSE <<>>

\* item.get('sku')
SkuOf(item) == IF "sku" \in DOMAIN item THEN item.sku ELSE "None"

\* The appends of the product strategy's double loop, in order: one
\* <<sku, order>> per line item with a sku.
RECURSIVE SkuAppends(_)
SkuAppends(orders_) ==
    IF orders_ = <<>> THEN <<>>
    ELSE LET order == orders_[Len(orders_)]
             items == SelectSeq(ItemsOf(order), LAMBDA item : Truthy(SkuOf(item)))
         IN  SkuAppends(SubSeq(orders_, 1, Len(orders_) - 1))
             \o [i \in 1..Len(items) |-> <<SkuOf(items[i]), order>>]

\* BatchAnalyzer._batch_by_products: each order is appended to the group
\* of a sku once per line item carrying that sku; one candidate per group
\* of at least 3 entries, in the order the skus first occur, named after
\* the first line item of the group's first order.
_batch_by_products(orders_) ==
    LET appends == SkuAppends(orders_)
        by_sku_keys == DictKeys([i \in 1..Len(appends) |-> appends[i][1]])
        by_sku(sku) ==
            LET mine == SelectSeq(appends, LAMBDA a : a[1] = sku)
            IN  [i \in 1..Len(mine) |-> mine[i][2]]
        emitted == SelectSeq(by_sku_keys,
                             LAMBDA sku : Len(by_sku(sku)) >= MIN_GROUP)
        product_name(sku) ==
            LET first == ItemsOf(by_sku(sku)[1])[1]
            IN  IF "name" \in DOMAIN first THEN first.name ELSE sku
    IN  [k \in 1..Len(emitted) |->
            [type |-> "product",
             name |-> <<product_name(emitted[k]), " Orders">>,
             description |-> <<Len(by_sku(emitted[k])), " orders containing ",
                               product_name(emitted[k])>>,
             orders |-> by_sku(emitted[k]),
             order_ids |-> OrderIdsOf(by_sku(emitted[k])),
             count |-> Len(by_sku(emitted[k])),
             savings_minutes |-> Len(by_sku(emitted[k])) * 6]]

\* A score whose size multiplier starts at 10 members.
score_from_ten(batch) ==
    LET base_score == batch.savings_minutes
        prioritised == IF "priority" \in DOMAIN batch /\ batch.priority = "high"
                       THEN base_score * 2 ELSE base_score
    IN  IF batch.count >= LARGE_COUNT THEN (prioritised * 3) \div 2
        ELSE prioritised

\* score of _rank_batches, in quarters of a minute.
score(batch) ==
    LET base_score == batch.savings_minutes
        prioritised == IF "priority" \in DOMAIN batch /\ batch.priority = "high"
                       THEN base_score * 2 ELSE base_score
    IN  IF batch.count > LARGE_COUNT THEN (prioritised * 3) \div 2
        ELSE prioritised

\* A sort that puts a candidate before those of equal score that came
\* before it.
RECURSIVE _rank_batches_ties_reversed(_)
_rank_batches_ties_reversed(batches_) ==
    IF batches_ = <<>> THEN <<>>
    ELSE LET sorted == _rank_batches_ties_reversed(
                           SubSeq(batches_, 1, Len(batches_) - 1))
             b == batches_[Len(batches_)]
             ahead == Cardinality({i \in 1..Len(sorted) :
                                      score(sorted[i]) > score(b)})
         IN  SubSeq(sorted, 1, ahead) \o <<b>>
             \o SubSeq(sorted, ahead + 1, Len(sorted))

\* BatchAnalyzer._rank_batches: sorted(batches, key=score, reverse=True),
\* a stable sort: each candidate goes behind those already placed that
\* score at least as much.
RECURSIVE _rank_batches(_)
_rank_batches(batches_) ==
    IF batches_ = <<>> THEN <<>>
    ELSE LET sorted == _rank_batches(SubSeq(batches_, 1, Len(batches_) - 1))
             b == batches_[Len(batches_)]
             ahead == Cardinality({i \in 1..Len(sorted) :
                                      score(sorted[i]) >= score(b)})
         IN  SubSeq(sorted, 1, ahead) \o <<b>>
             \o SubSeq(sorted, ahead + 1, Len(sorted))

\* suggest_batches returning every ranked candidate.
suggest_batches_any_status(collection, t) ==
    LET orders_ == Take(collection, QUERY_LIMIT)
        region_batches == _batch_by_region(orders_)
        urgency_batches == _batch_by_urgency(orders_, t)
        product_batches == _batch_by_products(orders_)
        all_batches == region_batches \o urgency_batches \o product_batches
        ranked_batches == _rank_batches(all_batches)
        raised == ValueErrorIn(orders_, t) \/ KeyErrorIn(all_batches)
        nothing == orders_ = <<>> \/ raised
    IN  [called |-> TRUE,
         raised |-> raised,
         orders |-> orders_,
         region_batches |-> IF nothing THEN <<>> ELSE region_batches,
         urgency_batches |-> IF nothing THEN <<>> ELSE urgency_batches,
         product_batches |-> IF nothing THEN <<>> ELSE product_batches,
         all_batches |-> IF nothing THEN <<>> ELSE all_batches,
         ranked_batches |-> IF nothing THEN <<>> ELSE ranked_batches,
         result |-> IF nothing THEN <<>>
                    ELSE Take(ranked_batches, TOP_BATCHES)]

suggest_batches_uncut(collection, t) ==
    LET orders_ == Take(SelectSeq(collection,
                                  LAMBDA o : o.status = "validated"),
                        QUERY_LIMIT)
        region_batches == _batch_by_region(orders_)
        urgency_batches == _batch_by_urgency(orders_, t)
        product_batches == _batch_by_products(orders_)
        all_batches == region_batches \o urgency_batches \o product_batches
        ranked_batches == _rank_batches(all_batches)
        raised == ValueErrorIn(orders_, t) \/ KeyErrorIn(all_batches)
        nothing == orders_ = <<>> \/ raised
    IN  [called |-> TRUE,
         raised |-> raised,
         orders |-> orders_,
         region_batches |-> IF nothing THEN <<>> ELSE region_batches,
         urgency_batches |-> IF nothing THEN <<>> ELSE urgency_batches,
         product_batches |-> IF nothing THEN <<>> ELSE product_batches,
         all_batches |-> IF nothing THEN <<>> ELSE all_batches,
         ranked_batches |-> IF nothing THEN <<>> ELSE ranked_batches,
         result |-> IF nothing THEN <<>> ELSE ranked_batches]

\* BatchAnalyzer.suggest_batches at clock reading t: the validated orders,
\* at most 100, go through the three strategies; the candidates, region
\* then urgency then product, are ranked and the first 10 returned; when
\* a strategy raises, the except branch returns the empty list.  The lists
\* made on the way are kept beside the result.
suggest_batches(collection, t) ==
    LET orders_ == Take(SelectSeq(collection,
                                  LAMBDA o : o.status = "validated"),
                        QUERY_LIMIT)
        region_batches == _batch_by_region(orders_)
        urgency_batches == _batch_by_urgency(orders_, t)
        product_batches == _batch_by_products(orders_)
        all_batches == region_batches \o urgency_batches \o product_batches
        ranked_batches == _rank_batches(all_batches)
        raised == ValueErrorIn(orders_, t) \/ KeyErrorIn(all_batches)
        nothing == orders_ = <<>> \/ raised
    IN  [called |-> TRUE,
         raised |-> raised,
         orders |-> orders_,
         region_batches |-> IF nothing THEN <<>> ELSE region_batches,
         urgency_batches |-> IF nothing THEN <<>> ELSE urgency_batches,
         product_batches |-> IF nothing THEN <<>> ELSE product_batches,
         all_batches |-> IF nothing THEN <<>> ELSE all_batches,
         ranked_batches |-> IF nothing THEN <<>> ELSE ranked_batches,
         result |-> IF nothing THEN <<>>
                    ELSE Take(ranked_batches, TOP_BATCHES)]

\* Line items: two named products and a catalogue of 11 skus whose items
\* carry no name.
WIDGET == [sku |-> "SKU-01", name |-> "Widget", quantity |-> 1]
GADGET == [sku |-> "SKU-02", name |-> "Gadget", quantity |-> 1]
CATALOGUE ==
    [i \in 1..11 |->
        [sku |-> <<"SKU-01", "SKU-02", "SKU-03", "SKU-04", "SKU-05", "SKU-06",
                   "SKU-07", "SKU-08", "SKU-09", "SKU-10", "SKU-11">>[i],
         quantity |-> 1]]

\* What the orders of the collection look like, apart from their ids: the
\* status, the address (state "None" where intake got none), the hour of
\* creation (-4 is 6 hours before the call, -3 is 5) and the line items.
ORDER_SHAPES ==
    {[status |-> "validated", address |-> [state |-> "CA"],
      created_at |-> isoformat(-3),
      items |-> <<WIDGET>>],
     [status |-> "validated", address |-> [state |-> "CA"],
      created_at |-> isoformat(-4),
      items |-> <<GADGET, WIDGET>>],
     [status |-> "validated", address |-> [state |-> "CA"],
      created_at |-> isoformat(-3),
      items |-> <<WIDGET, WIDGET>>],
     [status |-> "validated", address |-> [state |-> "CA"],
      created_at |-> isoformat(-3),
      items |-> <<WIDGET, WIDGET, WIDGET>>],
     [status |-> "validated", address |-> [state |-> "NY"],
      created_at |-> isoformat(-4),
      items |-> <<>>],
     [status |-> "validated", address |-> [state |-> "None"],
      created_at |-> isoformat(-4),
      items |-> <<WIDGET>>],
     [status |-> "processing", address |-> [state |-> "CA"],
      created_at |-> isoformat(-4),
      items |-> <<WIDGET>>],
     [status |-> "validated", address |-> [state |-> "CA"],
      created_at |-> isoformat(-3),
      items |-> CATALOGUE],
     [status |-> "validated", address |-> [state |-> "CA"],
      created_at |-> isoformat(-3),
      items |-> <<>>]}

\* The i-th document of the collection: a shape under the i-th order id.
OrderDoc(i, shape) == [order_id |-> <<"ORD", i>>] @@ shape

\* An order to CA, 5 hours old, of one widget.
PLAIN_ORDER ==
    [status |-> "validated", address |-> [state |-> "CA"],
     created_at |-> isoformat(-3), items |-> <<WIDGET>>]

\* A collection of at most MaxOrders orders, or one of plain orders that
\* is one order larger than the query's limit; the clock reads hour 2.
SuggestInit ==
    /\ \/ \E n \in 0..MaxOrders :
             \E shapes \in [1..n -> ORDER_SHAPES] :
                orders = [i \in 1..n |-> OrderDoc(i, shapes[i])]
       \/ orders = [i \in 1..(QUERY_LIMIT + 2) |->
                       OrderDoc(i, IF i = 1
                                   THEN [PLAIN_ORDER EXCEPT
                                            !.status = "processing"]
                                   ELSE PLAIN_ORDER)]
    /\ published = <<>>
    /\ now = 2
    /\ last = NoCall
    /\ batches = NoBatches
    /\ suggested = NoSuggestion
    /\ inflight = NoInflight
    /\ seen = NoSeen

\* The suggest route persisting its first candidate.
SuggestBatches_persists_first ==
    LET r == suggest_batches(orders, now) IN
    /\ suggested' = r
    /\ batches' = IF r.result = <<>> THEN batches
                  ELSE create_batch(batches, r.result[1], now).batches
    /\ last' = [NoCall EXCEPT !.op = "suggest_batches",
                              !.pre = orders,
                              !.pre_pub = published,
                              !.pre_batches = batches]
    /\ UNCHANGED <<orders, published, now, inflight, seen>>

\* GET /api/batches/suggest
SuggestBatches ==
    /\ suggested' = suggest_batches(orders, now)
    /\ last' = [NoCall EXCEPT !.op = "suggest_batches",
                              !.pre = orders,
                              !.pre_pub = published,
                              !.pre_batches = batches]
    /\ UNCHANGED <<orders, published, now, batches, inflight, seen>>

\* POST /api/batches/create with a candidate that the suggest route
\* returned as the body.
CreateSuggestedBatch ==
    /\ suggested.called
    /\ \E k \in 1..Len(suggested.result) :
          LET batch_data == suggested.result[k] IN
          IF batch_data.order_ids = <<>>
          THEN /\ last' = [NoCall EXCEPT !.op = "create_batch",
                                         !.raised = TRUE,
                                         !.error = "order_ids required"]
               /\ UNCHANGED batches
          ELSE LET r == create_batch(batches, batch_data, now) IN
               /\ batches' = r.batches
               /\ last' = [NoCall EXCEPT !.op = "create_batch",
                                         !.order_ids = batch_data.order_ids,
                                         !.batch_id = r.batch_id]
    /\ UNCHANGED <<orders, published, now, suggested, inflight, seen>>

SuggestNext == SuggestBatches

SpecSuggest == SuggestInit /\ [][SuggestNext]_vars

\* Ranking large candidates: a run of orders to CA that are 6 hours old
\* followed by a run of orders to NY that are 5 hours old, each of one
\* widget.
RankInit ==
    /\ \E urgent \in 0..MaxRun, fresh \in 0..MaxRun :
          orders = [i \in 1..(urgent + fresh) |->
                       OrderDoc(i, IF i <= urgent
                                   THEN [PLAIN_ORDER EXCEPT
                                            !.created_at = isoformat(-4)]
                                   ELSE [PLAIN_ORDER EXCEPT
                                            !.address = [state |-> "NY"]])]
    /\ published = <<>>
    /\ now = 2
    /\ last = NoCall
    /\ batches = NoBatches
    /\ suggested = NoSuggestion
    /\ inflight = NoInflight
    /\ seen = NoSeen

SpecRank == RankInit /\ [][SuggestNext]_vars

\* Suggesting and creating: collections of plain orders, orders with a
\* repeated line item, urgent orders and orders in processing.
PROMOTE_SHAPES ==
    {PLAIN_ORDER,
     [status |-> "validated", address |-> [state |-> "CA"],
      created_at |-> isoformat(-3),
      items |-> <<WIDGET, WIDGET>>],
     [status |-> "validated", address |-> [state |-> "CA"],
      created_at |-> isoformat(-4),
      items |-> <<GADGET, WIDGET>>],
     [status |-> "processing", address |-> [state |-> "CA"],
      created_at |-> isoformat(-4),
      items |-> <<WIDGET>>]}

PromoteInit ==
    /\ \E n \in 0..MaxOrders :
          \E shapes \in [1..n -> PROMOTE_SHAPES] :
             orders = [i \in 1..n |-> OrderDoc(i, shapes[i])]
    /\ published = <<>>
    /\ now = 2
    /\ last = NoCall
    /\ batches = NoBatches
    /\ suggested = NoSuggestion
    /\ inflight = NoInflight
    /\ seen = NoSeen

PromoteNext == SuggestBatches \/ CreateSuggestedBatch

SpecPromote == PromoteInit /\ [][PromoteNext]_vars

\* Documents that no service of the repository writes: a validated order
\* without order_id and one whose created_at is no timestamp.
MalformedDoc(i, kind) ==
    IF kind = "no order_id"
    THEN [status |-> "validated", address |-> [state |-> "CA"],
          created_at |-> isoformat(-3), items |-> <<WIDGET>>]
    ELSE [order_id |-> <<"ORD", i>>, status |-> "validated",
          address |-> [state |-> "CA"], created_at |-> NOT_A_DATE,
          items |-> <<WIDGET>>]

\* A collection as above in which one document is malformed.
MalformedInit ==
    /\ \E n \in 1..MaxOrders :
          \E shapes \in [1..n -> ORDER_SHAPES], m \in 1..n,
             kind \in {"no order_id", "no timestamp"} :
             orders = [i \in 1..n |->
                          IF i = m THEN MalformedDoc(i, kind)
                          ELSE OrderDoc(i, shapes[i])]
    /\ published = <<>>
    /\ now = 2
    /\ last = NoCall
    /\ batches = NoBatches
    /\ suggested = NoSuggestion
    /\ inflight = NoInflight
    /\ seen = NoSeen

SpecSuggestMalformed == MalformedInit /\ [][SuggestNext]_vars

\* ---------------------------------------------------------------- status route
\* The PUT route of the status engine as its caller sees it: the HTTP code
\* and the JSON body.

\* The text of the exception the storage client raises when the database
\* cannot be reached.
STORAGE_FAILURE == "503 Service Unavailable"

\* The status field of the request body: a status, or nothing.
STATUS_BODY_INPUTS == NEW_STATUS_INPUTS \cup {""}

\* update_order_status: 400 when the body names no status; otherwise
\* update_status runs, db_ok telling whether the database answers; what
\* it returns goes out with 200, and whatever it raises is caught by the
\* one except clause and goes out with 500 as {'success': False, 'error':
\* the text of the exception}.
update_order_status(store, order_id, new_status, pub_ok, db_ok, t) ==
    IF new_status = ""
    THEN [code |-> 400, body |-> [error |-> "status required"],
          orders |-> store, attempts |-> <<>>]
    ELSE IF ~db_ok
    THEN [code |-> 500,
          body |-> [success |-> FALSE, error |-> STORAGE_FAILURE],
          orders |-> store, attempts |-> <<>>]
    ELSE LET r == update_status(store, order_id, new_status, pub_ok, t) IN
         IF r.raised
         THEN [code |-> 500,
               body |-> [success |-> FALSE, error |-> r.error],
               orders |-> r.orders, attempts |-> r.attempts]
         ELSE [code |-> 200,
               body |-> [success |-> TRUE, order_id |-> order_id,
                         status |-> r.status],
               orders |-> r.orders, attempts |-> r.attempts]

\* PUT /api/orders/<order_id>/status, answered.
UpdateOrderStatus ==
    /\ last.op = "none"
    /\ \E order_id \in ORDER_IDS, new_status \in STATUS_BODY_INPUTS :
       \E pub_ok \in PubOutcomes(1, new_status), db_ok \in BOOLEAN :
        LET r == update_order_status(orders, order_id, new_status,
                                     pub_ok[1], db_ok, now) IN
        /\ Len(published) + Len(Delivered(r.attempts)) <= MaxPub
        /\ orders' = r.orders
        /\ published' = published \o Delivered(r.attempts)
        /\ last' = [NoCall EXCEPT !.op = "update_order_status",
                                  !.order_ids = <<order_id>>,
                                  !.new_status = new_status,
                                  !.db_ok = db_ok,
                                  !.response = [code |-> r.code,
                                                body |-> r.body],
                                  !.attempts = r.attempts,
                                  !.pre = orders,
                                  !.pre_pub = published]
    /\ UNCHANGED <<now, batches, suggested, inflight, seen>>

RouteNext == UpdateOrderStatus \/ BulkUpdateStatus \/ Respond

SpecRoute == Init /\ [][RouteNext]_vars

\* ---------------------------------------------------------------- duplicate detection
\* Intake requests handled concurrently: a request validates, which
\* includes the duplicate query, and later creates and saves its order;
\* other requests run between the two.  The clock reads milliseconds.

\* What a submission carries of the customer and the payment, and whether
\* it satisfies the rules other than the duplicate check.
CUSTOMER_EMAILS == {"ann@example.com"}
TOTAL_AMOUNTS == {25, 40}
Submissions ==
    [customer_email : CUSTOMER_EMAILS \cup {""},
     total_amount : TOTAL_AMOUNTS,
     rules_ok : BOOLEAN]

\* The duplicate window, 86400 seconds, in readings of the clock.
DUPLICATE_WINDOW == 86400 * 1000

\* The most documents the duplicate query returns.
DUPLICATE_QUERY_LIMIT == 5

\* The order ids in the order the query streams documents.
ORDER_ID_SEQ == <<"ORD-1", "ORD-2", "ORD-3">>

\* OrderValidator._check_duplicate at reading t: no email, no duplicate;
\* otherwise the first 5 documents with the email and the amount are
\* read, and one created less than 24 hours ago makes a duplicate.
_check_duplicate(store, order_data, t) ==
    IF order_data.customer_email = "" THEN FALSE
    ELSE LET ids == SelectSeq(ORDER_ID_SEQ,
                      LAMBDA o :
                         /\ store[o].exists
                         /\ store[o].customer.email
                               = order_data.customer_email
                         /\ store[o].payment.amount
                               = order_data.total_amount)
             docs == Take(ids, DUPLICATE_QUERY_LIMIT)
         IN  \E i \in 1..Len(docs) :
                t - store[docs[i]].created_at < DUPLICATE_WINDOW

\* OrderValidator.validate_order: passed when no rule added an error; the
\* email rule fails without an email, the duplicate check adds an error
\* when it finds a duplicate.
validate_order(store, order_data, t) ==
    [passed |-> /\ order_data.rules_ok
                /\ order_data.customer_email # ""
                /\ ~_check_duplicate(store, order_data, t)]

\* create_order_object with the customer and payment fields that the
\* duplicate query reads.
create_order_object_of(normalized_data, validation_result, t) ==
    [customer |-> [email |-> normalized_data.customer_email],
     payment |-> [amount |-> normalized_data.total_amount]]
    @@ create_order_object(validation_result.passed, t)

\* An order of ann's, of amount 25, stored under ORD-3 at reading t.
EarlierOrder(t) ==
    [customer |-> [email |-> "ann@example.com"], payment |-> [amount |-> 25]]
    @@ IntakeOrder("ORD-3", "validated", t)

\* Under ORD-3 nothing is stored, or an order made 24 hours before
\* reading 1 of the clock, or one made 24 hours before reading 2.
DuplicateInit ==
    /\ \E third \in {AbsentDoc, EarlierOrder(1 - DUPLICATE_WINDOW),
                     EarlierOrder(2 - DUPLICATE_WINDOW)} :
          orders = [o \in ORDER_IDS |-> IF o = "ORD-3" THEN third
                                        ELSE AbsentDoc]
    /\ published = <<>>
    /\ now = 1
    /\ last = NoCall
    /\ batches = NoBatches
    /\ suggested = NoSuggestion
    /\ inflight = NoInflight
    /\ seen = NoSeen

\* intake_order up to validate_order: the request is validated against
\* the store as it is now.
BeginIntake ==
    /\ BagCardinality(inflight) < MaxCalls
    /\ \E normalized_data \in Submissions :
          inflight' = inflight (+)
             SetToBag({[normalized_data |-> normalized_data,
                        validation_result |->
                            validate_order(orders, normalized_data, now)]})
    /\ UNCHANGED <<orders, published, now, last, batches, suggested, seen>>

\* intake_order from create_order_object on: the order is made at the
\* present reading of the clock and saved.
SaveIntake ==
    /\ \E call \in BagToSet(inflight) :
          LET order == create_order_object_of(call.normalized_data,
                                              call.validation_result, now)
          IN  /\ orders' = save_to_firestore(orders, order)
              /\ inflight' = inflight (-) SetToBag({call})
              /\ last' = [NoCall EXCEPT !.op = "intake",
                                        !.order_ids = <<order.order_id>>,
                                        !.status = order.status,
                                        !.pre = orders]
    /\ UNCHANGED <<published, now, batches, suggested, seen>>

\* Time passes while requests are under way.
DuplicateTick ==
    /\ now < Len(ORDER_ID_AT)
    /\ now' = now + 1
    /\ UNCHANGED <<orders, published, last, batches, suggested, inflight,
                   seen>>

DuplicateNext == BeginIntake \/ SaveIntake \/ DuplicateTick

SpecDuplicate == DuplicateInit /\ [][DuplicateNext]_vars

\* ---------------------------------------------------------------- claims
\* The policy of the status graph, stated on its own: the pairs
\* (current, next) with current # next that a status change may make.
PolicyEdges ==
    {<<"validated", "processing">>, <<"validated", "paid">>,
     <<"processing", "paid">>, <<"processing", "exception">>,
     <<"paid", "picking">>, <<"picking", "packed">>,
     <<"packed", "shipped">>, <<"shipped", "delivered">>}

\* A status change the policy permits: an edge, or the same status again.
Permitted(current, new) == current = new \/ <<current, new>> \in PolicyEdges

\* The request being answered is a single-order status update.
IsUpdate == last.op = "update_status"

\* The request being answered is a bulk status update.
IsBulk == last.op = "bulk_update_status"

\* The positions of the list of the bulk update being answered.
Members == 1..Len(last.order_ids)

\* The order id of the single-order update being answered.
Target == last.order_ids[1]

\* The single-order update being answered found its order stored.
UpdateOfStored == IsUpdate /\ last.pre[Target].exists

\* C1: a single-order update whose order is stored with status current, to
\* a status next # current that is no policy edge, fails with the
\* invalid-transition error, leaves the store as it was (the stored status
\* is still current) and makes no publish attempt.
C1_InvalidTransitionRejected ==
    (UpdateOfStored /\ ~Permitted(last.pre[Target].status, last.new_status))
    => /\ last.raised
       /\ last.error = "Invalid transition"
       /\ orders[Target].status = last.pre[Target].status
       /\ orders = last.pre
       /\ last.attempts = <<>>
       /\ published = last.pre_pub

\* C1 witness: an order stored as paid was asked to become shipped, and the
\* request was refused.
C1_Witness ==
    /\ UpdateOfStored
    /\ last.pre[Target].status = "paid"
    /\ last.new_status = "shipped"
    /\ last.raised

\* C2: the transition check accepts a pair of the eight statuses exactly
\* when the two are equal or the pair is one of the eight policy edges, and
\* a single-order update of a stored order is refused exactly when its pair
\* is not accepted.
C2_TransitionTable ==
    /\ \A current \in STATUSES, new \in STATUSES :
          _is_valid_transition(current, new) <=> Permitted(current, new)
    /\ UpdateOfStored
       => (last.raised
           <=> ~Permitted(last.pre[Target].status, last.new_status))

\* C2 witness: the edge processing -> exception was requested and accepted.
C2_Witness ==
    /\ UpdateOfStored
    /\ last.pre[Target].status = "processing"
    /\ last.new_status = "exception"
    /\ ~last.raised

\* C3: a single-order update to the status the order already has succeeds
\* and leaves the stored status as it was; applying it again to the store
\* it left gives the same stored status once more.
C3_SameStatusIdempotent ==
    (UpdateOfStored /\ last.pre[Target].status = last.new_status)
    => /\ ~last.raised
       /\ last.status = last.new_status
       /\ orders[Target].status = last.new_status
       /\ \A pub_ok \in BOOLEAN :
             LET again == update_status(orders, Target, last.new_status,
                                        pub_ok, now)
             IN  /\ ~again.raised
                 /\ again.orders[Target].status = orders[Target].status

\* C3 witness: an order stored as delivered was updated to delivered.
C3_Witness ==
    /\ UpdateOfStored
    /\ last.pre[Target].status = "delivered"
    /\ last.new_status = "delivered"
    /\ ~last.raised

\* The statuses without an outgoing policy edge.
TerminalStatuses == {"exception", "delivered"}

\* C4: exception and delivered are terminal: a single-order update of an
\* order stored as exception or delivered to a different status fails, a
\* bulk update reports such a member as failed, and whatever the request,
\* an order stored as exception or delivered has that status afterwards.
C4_TerminalStatuses ==
    /\ \A o \in ORDER_IDS :
          (last.pre[o].exists /\ last.pre[o].status \in TerminalStatuses)
          => orders[o].status = last.pre[o].status
    /\ (/\ UpdateOfStored
        /\ last.pre[Target].status \in TerminalStatuses
        /\ last.new_status # last.pre[Target].status)
       => last.raised
    /\ IsBulk
       => \A i \in 1..Len(last.order_ids) :
             (/\ last.pre[last.order_ids[i]].exists
              /\ last.pre[last.order_ids[i]].status \in TerminalStatuses
              /\ last.new_status # last.pre[last.order_ids[i]].status)
             => ~last.results[i].success

\* C4 witness: an order that had reached delivered was asked to go back to
\* validated, and the request was refused.
C4_Witness ==
    /\ UpdateOfStored
    /\ last.pre[Target].status = "delivered"
    /\ last.new_status = "validated"
    /\ last.raised
    /\ orders[Target].status = "delivered"

\* C5: a single-order update of an order id under which nothing is stored
\* fails with the not-found error, leaves the whole store as it was (no
\* document is created) and makes no publish attempt.
C5_NotFound ==
    (IsUpdate /\ ~last.pre[Target].exists)
    => /\ last.raised
       /\ last.error = "not found"
       /\ orders = last.pre
       /\ ~orders[Target].exists
       /\ last.attempts = <<>>
       /\ published = last.pre_pub

\* C5 witness: an update of ORD-3, under which nothing is stored, was
\* refused.
C5_Witness ==
    /\ IsUpdate
    /\ ~last.pre[Target].exists
    /\ last.new_status = "shipped"
    /\ last.raised

\* C6: a single-order update makes a publish attempt only when it succeeded
\* and the new status is shipped or delivered, and then exactly one, naming
\* the order and the new status; a successful update to any other status
\* makes none; the topic gains the attempt's message or nothing.  The same
\* holds of the updates a bulk update makes: each of its attempts names a
\* member that succeeded and the new status, shipped or delivered.
C6_NotifyOnlyShippedDelivered ==
    /\ IsUpdate
       => /\ last.attempts # <<>>
             => /\ ~last.raised
                /\ Len(last.attempts) = 1
                /\ last.attempts[1].order_id = Target
          /\ (~last.raised /\ last.new_status \notin {"shipped", "delivered"})
             => last.attempts = <<>>
    /\ IsBulk
       => \A k \in 1..Len(last.attempts) :
             \E i \in Members :
                /\ last.order_ids[i] = last.attempts[k].order_id
                /\ last.results[i].success
    /\ \A k \in 1..Len(last.attempts) :
          /\ last.new_status \in {"shipped", "delivered"}
          /\ last.attempts[k].event = last.new_status
          /\ orders[last.attempts[k].order_id].status = last.new_status
    /\ Len(last.attempts) <= Len(last.order_ids)
    /\ (IsUpdate \/ IsBulk)
       => published = last.pre_pub \o Delivered(last.attempts)

\* C6 witness: a successful update to shipped put its message on the topic.
C6_Witness ==
    /\ UpdateOfStored
    /\ last.new_status = "shipped"
    /\ ~last.raised
    /\ published = Append(last.pre_pub,
                          [order_id |-> Target, event |-> "shipped",
                           agent |-> "ADK-002"])

\* The single-order update being answered asked an order stored as
\* processing to become exception.
ProcessingToException ==
    /\ UpdateOfStored
    /\ last.pre[Target].status = "processing"
    /\ last.new_status = "exception"

\* C7 as stated: an update of an order stored as processing to exception
\* succeeds and makes exactly one publish attempt, with event "exception".
C7_AsStated ==
    ProcessingToException
    => /\ ~last.raised
       /\ Len(last.attempts) = 1
       /\ last.attempts[1].event = "exception"

\* C7 as amended: an update of an order stored as processing to exception
\* succeeds and stores exception, and makes no publish attempt: nothing is
\* put on the topic.
C7_ExceptionNotNotified ==
    ProcessingToException
    => /\ ~last.raised
       /\ orders[Target].status = "exception"
       /\ last.attempts = <<>>
       /\ published = last.pre_pub

\* C7 witness: an order stored as processing was updated to exception.
C7_Witness ==
    /\ ProcessingToException
    /\ ~last.raised
    /\ orders[Target].status = "exception"

\* The single-order update being answered made a publish attempt that
\* failed or timed out.
PublishFailed ==
    /\ IsUpdate
    /\ last.attempts # <<>>
    /\ ~last.attempts[1].delivered

\* C8: when the publish of a permitted update to shipped or delivered fails
\* or times out, the update still returns success with the new status and
\* the new status stays stored; nothing reaches the topic.
C8_PublishFailureSwallowed ==
    /\ PublishFailed
       => /\ ~last.raised
          /\ last.status = last.new_status
          /\ orders[Target].status = last.new_status
          /\ published = last.pre_pub
    /\ (/\ UpdateOfStored
        /\ last.new_status \in {"shipped", "delivered"}
        /\ Permitted(last.pre[Target].status, last.new_status))
       => /\ ~last.raised
          /\ orders[Target].status = last.new_status

\* C8 witness: the publish of an update from packed to shipped failed, and
\* the update returned success with shipped stored.
C8_Witness ==
    /\ PublishFailed
    /\ last.pre[Target].status = "packed"
    /\ last.new_status = "shipped"
    /\ ~last.raised
    /\ orders[Target].status = "shipped"

\* Member i of the bulk update being answered cannot be updated: nothing
\* was stored under its id, or the policy does not permit the change from
\* the status it was stored with.
BadMember(i) ==
    \/ ~last.pre[last.order_ids[i]].exists
    \/ ~Permitted(last.pre[last.order_ids[i]].status, last.new_status)

\* C9: a bulk update returns total = the length of its list, failed = the
\* number of members that are not found or whose change is not permitted,
\* success = total - failed, and leaves every failed member as it was
\* stored.
C9_BulkCounts ==
    IsBulk
    => /\ last.total = Len(last.order_ids)
       /\ last.failed = Cardinality({i \in Members : BadMember(i)})
       /\ last.success = last.total - last.failed
       /\ \A i \in Members :
             BadMember(i)
             => /\ ~last.results[i].success
                /\ orders[last.order_ids[i]] = last.pre[last.order_ids[i]]

\* C9 witness: a bulk update to picking over an order stored as paid and an
\* order that had moved on to another status: one succeeded, one failed.
C9_Witness ==
    /\ IsBulk
    /\ last.total = 2
    /\ last.new_status = "picking"
    /\ last.success = 1
    /\ last.failed = 1
    /\ \E i \in Members :
          /\ last.pre[last.order_ids[i]].exists
          /\ last.pre[last.order_ids[i]].status = "packed"
          /\ ~last.results[i].success

\* C10: a bulk update calls update_status once for each member of its list,
\* in order, also after a member failed; every member that succeeded has
\* the new status stored when the call returns; and the result has one
\* entry per member, also when every member fails.
C10_BulkAttemptsEveryMember ==
    IsBulk
    => /\ last.calls = last.order_ids
       /\ Len(last.results) = Len(last.order_ids)
       /\ last.total = Len(last.order_ids)
       /\ \A i \in Members :
             /\ last.results[i].order_id = last.order_ids[i]
             /\ last.results[i].success <=> ~BadMember(i)
             /\ last.results[i].success
                => orders[last.order_ids[i]].status = last.new_status

\* C10 witness: the first member of a bulk update failed and the second,
\* another order, succeeded and has the new status stored.
C10_Witness ==
    /\ IsBulk
    /\ Len(last.order_ids) = 2
    /\ last.order_ids[1] # last.order_ids[2]
    /\ ~last.results[1].success
    /\ last.results[2].success
    /\ orders[last.order_ids[2]].status = last.new_status
    /\ orders[last.order_ids[2]] # last.pre[last.order_ids[2]]

\* The error member i of the bulk update being answered fails with.
MemberError(i) ==
    IF ~last.pre[last.order_ids[i]].exists THEN "not found"
    ELSE IF ~Permitted(last.pre[last.order_ids[i]].status, last.new_status)
    THEN "Invalid transition"
    ELSE "none"

\* C11: the per-order results of a bulk update are as many as the ids of
\* its list, and the i-th result carries the i-th id with that member's own
\* outcome: success, or failure with that member's error.
C11_ResultsInInputOrder ==
    IsBulk
    => /\ Len(last.results) = Len(last.order_ids)
       /\ \A i \in Members :
             last.results[i] =
                [order_id |-> last.order_ids[i],
                 success |-> MemberError(i) = "none",
                 error |-> MemberError(i)]

\* C11 witness: a bulk update over ORD-3, under which nothing is stored, and
\* then ORD-1, which succeeded: the results are in that order.
C11_Witness ==
    /\ IsBulk
    /\ last.order_ids = <<"ORD-3", "ORD-1">>
    /\ last.results =
          <<[order_id |-> "ORD-3", success |-> FALSE, error |-> "not found"],
            [order_id |-> "ORD-1", success |-> TRUE, error |-> "none"]>>

\* C12: after any sequence of intake, exception resolution, single-order
\* update and bulk update requests, every stored order has one of the eight
\* statuses.
C12_StatusInEnum ==
    \A o \in ORDER_IDS : orders[o].exists => orders[o].status \in STATUSES

\* C12 witness: an order that intake stored as exception was resolved, went
\* on to delivered and is stored beside an order that is in exception.
C12_Witness ==
    /\ orders["ORD-1"].exists
    /\ orders["ORD-1"].created_at = 1
    /\ "exception_resolved" \in DOMAIN orders["ORD-1"]
    /\ orders["ORD-1"].status = "delivered"
    /\ orders["ORD-2"].exists
    /\ orders["ORD-2"].status = "exception"

\* C13: concurrent single-order updates are not serialised and carry no
\* version check: every call under way passed validation against the
\* status it read, and its write goes through and stores its new status
\* whatever the stored status has become; the last write returned success
\* and its status is the stored one.
C13_NoVersionCheck ==
    /\ \A call \in BagToSet(inflight) :
          /\ Permitted(call.current_status, call.new_status)
          /\ update_status_write(orders, call.order_id, call.new_status,
                                 call.current_status,
                                 now)[call.order_id].status = call.new_status
    /\ IsUpdate
       => /\ ~last.raised
          /\ orders[Target].status = last.new_status

\* C13 witness: a lost update.  A write that returned success replaced the
\* stored status delivered by shipped, which is no policy edge.
C13_Witness ==
    /\ IsUpdate
    /\ ~last.raised
    /\ last.pre[Target].status = "delivered"
    /\ last.new_status = "shipped"
    /\ orders[Target].status = "shipped"

\* A lost update of two calls that read the same status: the stored status
\* went from validated to paid and then to processing.
C13_PaidOverwritten ==
    /\ IsUpdate
    /\ last.pre[Target].status = "paid"
    /\ last.new_status = "processing"
    /\ orders[Target].status = "processing"

\* C14: the identifier a createBatch call gets is fresh, so the call
\* overwrites no persisted batch record; likewise an intake overwrites no
\* stored order.
C14_FreshIdentifier ==
    /\ (last.op = "create_batch" /\ ~last.raised)
       => ~last.pre_batches[last.batch_id].exists
    /\ last.op = "intake" => ~last.pre[Target].exists

\* Two createBatch calls at one reading of the clock: the record of the
\* first is replaced by that of the second.
C14_BatchOverwritten ==
    /\ last.op = "create_batch"
    /\ ~last.raised
    /\ last.pre_batches[last.batch_id].exists
    /\ last.pre_batches[last.batch_id].name = "Morning run"
    /\ batches[last.batch_id].name = "CA Orders"
    /\ batches[last.batch_id].created_at = last.pre_batches[last.batch_id].created_at

\* ---- the batch analyzer

\* The working set of the suggest call answered, and positions in it.
WorkingSet == suggested.orders
InWorkingSet == 1..Len(suggested.orders)

\* The working-set orders of a region.
RegionMembers(state) ==
    {i \in InWorkingSet : StateOf(WorkingSet[i]) = state}

\* The ids of a candidate's members, as a set.
MemberIds(batch) == {batch.order_ids[i] : i \in 1..Len(batch.order_ids)}

\* C15: the region strategy emits no candidate for a region with fewer
\* than 3 orders in the working set and exactly one for a region with 3 or
\* more; every member of a region candidate has that region, so orders
\* without a region value are in none.
C15_RegionThreshold ==
    suggested.called =>
       /\ \A state \in {"CA", "NY"} :
             Cardinality({k \in 1..Len(suggested.region_batches) :
                             suggested.region_batches[k].name[1] = state})
                = IF Cardinality(RegionMembers(state)) >= 3 THEN 1 ELSE 0
       /\ \A k \in 1..Len(suggested.region_batches) :
             LET batch == suggested.region_batches[k] IN
             /\ batch.type = "region"
             /\ batch.name[1] \in {"CA", "NY"}
             /\ \A i \in 1..Len(batch.orders) :
                   /\ "address" \in DOMAIN batch.orders[i]
                   /\ "state" \in DOMAIN batch.orders[i].address
                   /\ batch.orders[i].address.state = batch.name[1]

\* C15 witness: three orders to CA give the one region candidate, while
\* the working set also holds an order without a region value.
C15_Witness ==
    /\ suggested.called
    /\ Len(suggested.region_batches) = 1
    /\ suggested.region_batches[1].name[1] = "CA"
    /\ Cardinality(RegionMembers("CA")) = 3
    /\ \E i \in InWorkingSet : WorkingSet[i].address.state = "None"
    /\ \A i \in InWorkingSet :
          WorkingSet[i].address.state = "None"
          => WorkingSet[i].order_id
                \notin MemberIds(suggested.region_batches[1])

\* The working-set orders at least 6 hours old at the time of the call.
UrgentMembers ==
    {i \in InWorkingSet : now - WorkingSet[i].created_at.hour >= 6}

\* C16: the urgency strategy emits at most one candidate, and emits it
\* exactly when at least 2 working-set orders are at least 6 hours old; its
\* members are those orders, each once, in working-set order; its savings
\* estimate is 3 minutes per member and its priority is high.
C16_UrgencyCandidate ==
    suggested.called =>
       /\ Len(suggested.urgency_batches)
             = IF Cardinality(UrgentMembers) >= 2 THEN 1 ELSE 0
       /\ \A k \in 1..Len(suggested.urgency_batches) :
             LET batch == suggested.urgency_batches[k] IN
             /\ batch.type = "urgency"
             /\ MemberIds(batch) = {WorkingSet[i].order_id : i \in UrgentMembers}
             /\ Len(batch.order_ids) = Cardinality(UrgentMembers)
             /\ \A i, j \in 1..Len(batch.order_ids) :
                   i < j => batch.order_ids[i][2] < batch.order_ids[j][2]
             /\ batch.orders
                   = [i \in 1..Len(batch.order_ids) |->
                         CHOOSE o \in {WorkingSet[w] : w \in InWorkingSet} :
                            o.order_id = batch.order_ids[i]]
             /\ batch.count = Len(batch.order_ids)
             /\ batch.savings_minutes = 4 * (3 * batch.count)
             /\ batch.priority = "high"

\* C16 witness: two orders exactly 6 hours old make the urgency candidate,
\* and a third order, 5 hours old, is left out of it.
C16_Witness ==
    /\ suggested.called
    /\ Len(suggested.urgency_batches) = 1
    /\ suggested.urgency_batches[1].count = 2
    /\ \A i \in UrgentMembers : now - WorkingSet[i].created_at.hour = 6
    /\ \E i \in InWorkingSet : now - WorkingSet[i].created_at.hour = 5

\* C17: every product candidate is for a product contained in at least 3
\* distinct orders of the working set: its members are at least 3 distinct
\* orders.
C17_ProductDistinctOrders ==
    suggested.called =>
       \A k \in 1..Len(suggested.product_batches) :
          Cardinality(MemberIds(suggested.product_batches[k])) >= 3

\* A product candidate of count 3 over two orders, one of which carries
\* the product in two line items.
C17_DuplicateCounted ==
    /\ suggested.called
    /\ \E k \in 1..Len(suggested.product_batches) :
          /\ suggested.product_batches[k].count = 3
          /\ Cardinality(MemberIds(suggested.product_batches[k])) = 2

\* The place in the ranked list that a stable descending sort gives the
\* i-th of seq: behind every one that scores more and every earlier one
\* that scores the same.
RankOf(seq, i) ==
    1 + Cardinality({j \in 1..Len(seq) :
                        \/ score(seq[j]) > score(seq[i])
                        \/ score(seq[j]) = score(seq[i]) /\ j < i})

\* C18: the ranked list is a permutation of the ranker's input, region
\* candidates then the urgency candidate then product candidates, sorted
\* by score without increase, candidates of equal score in input order.
C18_StableRanking ==
    suggested.called =>
       /\ suggested.all_batches
             = suggested.region_batches \o suggested.urgency_batches
                  \o suggested.product_batches
       /\ Len(suggested.ranked_batches) = Len(suggested.all_batches)
       /\ \A i \in 1..Len(suggested.all_batches) :
             suggested.ranked_batches[RankOf(suggested.all_batches, i)]
                = suggested.all_batches[i]
       /\ \A p, q \in 1..Len(suggested.ranked_batches) :
             p < q => score(suggested.ranked_batches[p])
                         >= score(suggested.ranked_batches[q])

\* C18 witness: the urgency candidate, made second, is ranked first, and a
\* region and a product candidate of equal score follow in input order.
C18_Witness ==
    /\ suggested.called
    /\ Len(suggested.ranked_batches) = 3
    /\ suggested.all_batches[1].type = "region"
    /\ suggested.all_batches[2].type = "urgency"
    /\ suggested.ranked_batches[1].type = "urgency"
    /\ suggested.ranked_batches[2].type = "region"
    /\ suggested.ranked_batches[3].type = "product"
    /\ score(suggested.ranked_batches[2]) = score(suggested.ranked_batches[3])

\* C19: suggest_batches returns at most 10 candidates: the first 10 of the
\* ranked list, or all of it when it has no more than 10.
C19_TopTen ==
    suggested.called =>
       /\ Len(suggested.result) <= 10
       /\ Len(suggested.result)
             = IF Len(suggested.ranked_batches) > 10 THEN 10
               ELSE Len(suggested.ranked_batches)
       /\ \A p \in 1..Len(suggested.result) :
             suggested.result[p] = suggested.ranked_batches[p]

\* C19 witness: more than 10 candidates qualify and 10 are returned.
C19_Witness ==
    /\ suggested.called
    /\ Len(suggested.ranked_batches) > 10
    /\ Len(suggested.result) = 10

\* The skus of an order's line items.
SkusOf(order) == {SkuOf(ItemsOf(order)[i]) : i \in 1..Len(ItemsOf(order))}

\* The scenario of C20: exactly 3 validated orders, all to CA, none
\* urgent, no product in two of them.
C20_Scenario ==
    /\ suggested.called
    /\ Len(WorkingSet) = 3
    /\ \A i \in InWorkingSet : StateOf(WorkingSet[i]) = "CA"
    /\ UrgentMembers = {}
    /\ \A i, j \in InWorkingSet :
          i # j => SkusOf(WorkingSet[i]) \cap SkusOf(WorkingSet[j]) = {}

\* C20: in the scenario suggest_batches returns exactly one candidate, of
\* type region, named after CA, of 3 members and score 6 minutes; and every
\* region candidate counts the working-set orders of its region, estimates
\* 2 minutes per member and has no priority flag.
C20_RegionCandidate ==
    /\ C20_Scenario
       => /\ Len(suggested.result) = 1
          /\ suggested.result[1].type = "region"
          /\ suggested.result[1].name[1] = "CA"
          /\ suggested.result[1].count = 3
          /\ score(suggested.result[1]) = 4 * 6
    /\ suggested.called
       => \A k \in 1..Len(suggested.region_batches) :
             LET batch == suggested.region_batches[k] IN
             /\ batch.count = Cardinality(RegionMembers(batch.name[1]))
             /\ batch.savings_minutes = 4 * (2 * batch.count)
             /\ "priority" \notin DOMAIN batch

\* The part of C20 about every region candidate.
C20_RegionCountAndSavings ==
    suggested.called
    => \A k \in 1..Len(suggested.region_batches) :
          LET batch == suggested.region_batches[k] IN
          /\ batch.count = Cardinality(RegionMembers(batch.name[1]))
          /\ batch.savings_minutes = 4 * (2 * batch.count)
          /\ "priority" \notin DOMAIN batch

\* The scenario of C20 with a second candidate returned: a product
\* candidate over three line items of one order.
C20_SecondCandidate ==
    /\ C20_Scenario
    /\ Len(suggested.result) = 2
    /\ suggested.result[2].type = "product"
    /\ Cardinality(MemberIds(suggested.result[2])) = 1

\* An order with an identifier and a creation timestamp that parses.
WellFormed(order) ==
    /\ "order_id" \in DOMAIN order
    /\ "created_at" \in DOMAIN order => Parses(order.created_at)

\* C21: a malformed order in the collection is skipped: suggest_batches
\* returns the candidates that the well-formed orders alone produce.
C21_MalformedSkipped ==
    suggested.called
    => suggested.result
          = suggest_batches(SelectSeq(orders, WellFormed), now).result

\* Three well-formed orders to CA and one order whose created_at does not
\* parse: the call raised and nothing is returned.
C21_Blanked ==
    /\ suggested.called
    /\ suggested.raised
    /\ suggested.result = <<>>
    /\ Len(suggest_batches(SelectSeq(orders, WellFormed), now).result) = 1
    /\ \E i \in 1..Len(orders) : ~Parses(orders[i].created_at)

\* ---- the batch lifecycle

\* The request answered is a create-batch request.
IsCreate == last.op = "create_batch"

\* C22: a create-batch request with an empty member list succeeds and
\* persists a batch of member count 0 and status active.
C22_EmptyBatchCreated ==
    (IsCreate /\ last.order_ids = <<>>)
    => /\ ~last.raised
       /\ last.batch_id \in BATCH_IDS
       /\ batches[last.batch_id].exists
       /\ batches[last.batch_id].order_count = 0
       /\ batches[last.batch_id].status = "active"

\* What the create route does instead: a request with an empty member
\* list is refused with "order_ids required" and the batch store is left
\* as it was, so every persisted batch has at least one member.
C22_EmptyListRefused ==
    /\ (IsCreate /\ last.order_ids = <<>>)
       => /\ last.raised
          /\ last.error = "order_ids required"
          /\ last.batch_id = "none"
          /\ batches = last.pre_batches
    /\ \A b \in BATCH_IDS : batches[b].exists => batches[b].order_count >= 1

\* An empty member list is refused while a batch made earlier stays
\* stored.
C22_Refused ==
    /\ IsCreate
    /\ last.order_ids = <<>>
    /\ last.raised
    /\ \E b \in BATCH_IDS : batches[b].exists

\* C24: a batch that a create-batch request persisted lists only orders
\* that are in the order store at the time of the request.
C24_MembersExist ==
    (IsCreate /\ ~last.raised)
    => \A i \in 1..Len(batches[last.batch_id].order_ids) :
          orders[batches[last.batch_id].order_ids[i]].exists

\* A batch persisted with a member that no order is stored under.
C24_MissingMember ==
    /\ IsCreate
    /\ ~last.raised
    /\ batches[last.batch_id].order_ids = <<"ORD-2", "ORD-1">>
    /\ orders["ORD-1"].exists
    /\ ~orders["ORD-2"].exists

\* The request answered is a batch status request, or a batch read.
IsBatchUpdate == last.op = "batch_update_status"
IsGetBatch == last.op = "get_batch"

\* C25: a batch status request leaves every batch record as it was,
\* whatever became of the member transitions, and runs update_status on
\* exactly the stored member ids, in stored order.
C25_BatchRecordUnchanged ==
    IsBatchUpdate
    => /\ batches = last.pre_batches
       /\ last.pre_batches[last.batch_id].exists
          => /\ last.order_ids = last.pre_batches[last.batch_id].order_ids
             /\ last.calls = last.pre_batches[last.batch_id].order_ids
             /\ last.total = last.pre_batches[last.batch_id].order_count

\* C25 witness: a batch over an absent and a stored order; one member
\* failed and one succeeded, and the batch record is as before.
C25_Witness ==
    /\ IsBatchUpdate
    /\ last.pre_batches[last.batch_id].exists
    /\ last.calls = <<"ORD-3", "ORD-1">>
    /\ last.failed = 1
    /\ last.success = 1
    /\ orders["ORD-1"].status # last.pre["ORD-1"].status
    /\ batches[last.batch_id].status = "active"
    /\ batches = last.pre_batches

\* C29: a batch read and a batch status request for an id that no batch
\* is stored under fail with not-found; the status request then runs no
\* member transition: no order changes and nothing is published.
C29_AbsentBatchNotFound ==
    ((IsGetBatch \/ IsBatchUpdate) /\ ~last.pre_batches[last.batch_id].exists)
    => /\ last.raised
       /\ last.error = "Batch not found"
       /\ last.batch = AbsentDoc
       /\ last.calls = <<>>
       /\ last.attempts = <<>>
       /\ orders = last.pre
       /\ published = last.pre_pub
       /\ batches = last.pre_batches

\* C29 witness: a status request for an absent batch is answered
\* not-found while another batch is stored, and the order of that batch
\* keeps its status.
C29_Witness ==
    /\ IsBatchUpdate
    /\ ~last.pre_batches[last.batch_id].exists
    /\ last.raised
    /\ last.new_status = "paid"
    /\ \E b \in BATCH_IDS : batches[b].exists
    /\ orders["ORD-1"].status = "validated"

\* C23: every persisted batch has a member count equal to the length of
\* its member list and status active, and every candidate returned by
\* suggest_batches has a count equal to the length of its order-id list.
C23_CountsMatchLists ==
    /\ \A b \in BATCH_IDS :
          batches[b].exists
          => /\ batches[b].order_count = Len(batches[b].order_ids)
             /\ batches[b].status = "active"
    /\ suggested.called
       => \A k \in 1..Len(suggested.result) :
             /\ suggested.result[k].count
                   = Len(suggested.result[k].order_ids)
             /\ suggested.result[k].count = Len(suggested.result[k].orders)

\* C23 witness: a product candidate that lists one order twice was
\* returned and persisted as a batch of 3 members over 2 orders.
C23_Witness ==
    /\ suggested.called
    /\ \E b \in BATCH_IDS :
          /\ batches[b].exists
          /\ batches[b].type = "product"
          /\ batches[b].order_count = 3
          /\ Cardinality({batches[b].order_ids[i] : i \in 1..3}) = 2
          /\ \E k \in 1..Len(suggested.result) :
                suggested.result[k].order_ids = batches[b].order_ids

\* The request answered is a suggest request.
IsSuggest == last.op = "suggest_batches"

\* C26: a suggest request leaves the order store and the batch store as
\* they were and publishes nothing; a batch is stored only once a
\* create-batch request has been made, not by suggesting.
C26_SuggestReadOnly ==
    /\ IsSuggest
       => /\ orders = last.pre
          /\ batches = last.pre_batches
          /\ published = last.pre_pub
    /\ (\E b \in BATCH_IDS : batches[b].exists)
       => (IsCreate \/ (IsSuggest /\ \E b \in BATCH_IDS :
                                        last.pre_batches[b].exists))

\* C26 witness: a suggest request answered while a batch made from an
\* earlier suggestion is stored.
C26_Witness ==
    /\ IsSuggest
    /\ suggested.called
    /\ Len(suggested.result) >= 2
    /\ \E b \in BATCH_IDS : batches[b].exists /\ last.pre_batches[b].exists

\* C30: every member of every candidate returned by suggest_batches is an
\* order of the snapshot taken by the call and had status validated in
\* it; no order in another status is a member; the snapshot holds at
\* most 100 orders.
C30_OnlyValidatedMembers ==
    (IsSuggest /\ suggested.called)
    => /\ Len(suggested.orders) <= QUERY_LIMIT
       /\ \A j \in 1..Len(suggested.orders) :
             /\ suggested.orders[j].status = "validated"
             /\ \E i \in 1..Len(last.pre) :
                   last.pre[i] = suggested.orders[j]
       /\ \A k \in 1..Len(suggested.result) :
             /\ \A m \in 1..Len(suggested.result[k].orders) :
                   /\ suggested.result[k].orders[m].status = "validated"
                   /\ \E j \in 1..Len(suggested.orders) :
                         suggested.orders[j] = suggested.result[k].orders[m]
             /\ \A m \in 1..Len(suggested.result[k].order_ids) :
                   /\ \E j \in 1..Len(suggested.orders) :
                         suggested.orders[j].order_id
                            = suggested.result[k].order_ids[m]
                   /\ \A i \in 1..Len(last.pre) :
                         last.pre[i].order_id
                               = suggested.result[k].order_ids[m]
                         => last.pre[i].status = "validated"

\* C30 witness: the collection holds 101 validated orders and one in
\* processing; the snapshot holds 100 orders and the candidate returned
\* has 100 members, the order in processing not among them.
C30_Witness ==
    /\ IsSuggest
    /\ suggested.called
    /\ Len(last.pre) > QUERY_LIMIT
    /\ last.pre[1].status = "processing"
    /\ Len(suggested.orders) = QUERY_LIMIT
    /\ suggested.result # <<>>
    /\ Len(suggested.result[1].order_ids) = QUERY_LIMIT
    /\ \A m \in 1..QUERY_LIMIT :
          suggested.result[1].order_ids[m] # last.pre[1].order_id

\* Why a status request on a store did not change the order.
Cause(store, order_id, new_status, db_ok) ==
    IF new_status = "" THEN "no status"
    ELSE IF ~db_ok THEN "storage failure"
    ELSE IF ~store[order_id].exists THEN "not found"
    ELSE IF ~_is_valid_transition(store[order_id].status, new_status)
    THEN "illegal transition"
    ELSE "none"

\* The three failures of the single-order status operation.
TYPED_FAILURES == {"not found", "illegal transition", "storage failure"}

\* The kind of a response: its HTTP code, the keys of its body and the
\* success flag, that is all of it but the free text of the message.
Kind(response) ==
    [code |-> response.code,
     keys |-> DOMAIN response.body,
     success |-> IF "success" \in DOMAIN response.body
                 THEN response.body.success ELSE FALSE]

\* C28: the caller of the single-order status route gets a typed failure:
\* a request that fails because the order is not found, one that fails
\* because the transition is illegal and one that fails because storage
\* did, made on the same store, never get responses of the same kind.
C28_TypedFailures ==
    (/\ last.op = "update_order_status"
     /\ Cause(last.pre, last.order_ids[1], last.new_status, last.db_ok)
           \in TYPED_FAILURES)
    => \A order_id \in ORDER_IDS, new_status \in NEW_STATUS_INPUTS,
          db_ok \in BOOLEAN :
          LET other == update_order_status(last.pre, order_id, new_status,
                                           TRUE, db_ok, now)
              cause == Cause(last.pre, order_id, new_status, db_ok)
          IN  (/\ cause \in TYPED_FAILURES
               /\ cause # Cause(last.pre, last.order_ids[1],
                                last.new_status, last.db_ok))
              => Kind(other) # Kind(last.response)

\* C28: a request on an order that is not stored is answered with 500 and
\* {'success': False, 'error': ...}, as a request for an illegal
\* transition and a request that met a storage failure are.
C28_AllThreeAlike ==
    /\ last.op = "update_order_status"
    /\ Cause(last.pre, last.order_ids[1], last.new_status, last.db_ok)
          = "not found"
    /\ last.response.code = 500
    /\ \E new_status \in NEW_STATUS_INPUTS :
          /\ Cause(last.pre, "ORD-1", new_status, TRUE)
                = "illegal transition"
          /\ Kind(update_order_status(last.pre, "ORD-1", new_status,
                                      TRUE, TRUE, now))
                = Kind(last.response)
    /\ Kind(update_order_status(last.pre, "ORD-1", "processing",
                                TRUE, FALSE, now))
          = Kind(last.response)

\* C27: once an order is written, no later intake, exception resolution,
\* single-order update or bulk update changes its created_at or its
\* order_id.
C27_CreatedAtFixed ==
    [][\A o \in ORDER_IDS :
          orders[o].exists
          => /\ orders'[o].exists
             /\ orders'[o].created_at = orders[o].created_at
             /\ orders'[o].order_id = orders[o].order_id]_vars

\* ---- ranking and naming

\* Twice what the score of a candidate is to be: the savings estimate,
\* times 2 when the priority is high, times 1.5 when the count is more
\* than 10.
DoubleScore(batch) ==
    batch.savings_minutes
    * (IF "priority" \in DOMAIN batch /\ batch.priority = "high"
       THEN 2 ELSE 1)
    * (IF batch.count > 10 THEN 3 ELSE 2)

\* C31: the score that ranks a candidate is its savings estimate, doubled
\* when its priority is high and then multiplied by 1.5 when it has more
\* than 10 members (10 members get no size multiplier), both together
\* for a high-priority candidate of more than 10; the ranked list runs
\* from the highest such score to the lowest.
C31_ScoreMultipliers ==
    suggested.called
    => /\ \A k \in 1..Len(suggested.all_batches) :
             2 * score(suggested.all_batches[k])
                = DoubleScore(suggested.all_batches[k])
       /\ \A k \in 1..(Len(suggested.ranked_batches) - 1) :
             DoubleScore(suggested.ranked_batches[k])
                >= DoubleScore(suggested.ranked_batches[k + 1])

\* C31 witness: the urgency candidate has 11 members and high priority
\* and scores 11 * 3 * 2 * 1.5 = 99 minutes; a region candidate of
\* exactly 10 members scores its savings, 20 minutes, and is ranked
\* behind a product candidate of 21 members that scores 47.25.
C31_Witness ==
    /\ suggested.called
    /\ Len(suggested.ranked_batches) = 4
    /\ suggested.ranked_batches[1].type = "urgency"
    /\ suggested.ranked_batches[1].count = 11
    /\ score(suggested.ranked_batches[1]) = 99 * 4
    /\ suggested.ranked_batches[2].type = "product"
    /\ suggested.ranked_batches[2].count = 21
    /\ score(suggested.ranked_batches[2]) = 189
    /\ suggested.ranked_batches[4].type = "region"
    /\ suggested.ranked_batches[4].count = 10
    /\ score(suggested.ranked_batches[4]) = 20 * 4

\* The skus of the product candidates of the suggest call answered, in
\* the order the candidates were made.
CandidateSkus ==
    LET appends == SkuAppends(suggested.orders)
        keys == DictKeys([i \in 1..Len(appends) |-> appends[i][1]])
    IN  SelectSeq(keys,
                  LAMBDA sku : Len(SelectSeq(appends,
                                             LAMBDA a : a[1] = sku)) >= 3)

\* The line items of an order that carry the sku.
MatchingItems(order, sku) ==
    SelectSeq(ItemsOf(order), LAMBDA item : SkuOf(item) = sku)

\* C32: a product candidate is named after the first line item of its
\* first member that carries the candidate's sku, also when the first
\* line item of that member is another product.
C32_NamedAfterMatchingItem ==
    suggested.called
    => \A k \in 1..Len(suggested.product_batches) :
          LET sku == CandidateSkus[k]
              first == MatchingItems(suggested.product_batches[k].orders[1],
                                     sku)[1]
          IN  suggested.product_batches[k].name
                 = <<IF "name" \in DOMAIN first THEN first.name ELSE sku,
                     " Orders">>

\* C32: the candidate of SKU-01, the widget, whose first member lists a
\* gadget before its widget, is named "Gadget Orders".
C32_NamedAfterOtherProduct ==
    /\ suggested.called
    /\ \E k \in 1..Len(suggested.product_batches) :
          /\ CandidateSkus[k] = "SKU-01"
          /\ suggested.product_batches[k].orders[1].items = <<GADGET, WIDGET>>
          /\ suggested.product_batches[k].name = <<"Gadget", " Orders">>
          /\ suggested.product_batches[k].description
                = <<3, " orders containing ", "Gadget">>

\* ---- notifications and the policy graph

\* The request answered is a request of the single-order status route.
IsRouteUpdate == last.op = "update_order_status"

\* C33: commit before notify.  Every publish attempt of a request names
\* an order whose document that request has written: the order was
\* stored, the transition to the event was permitted, and the document
\* now holds the event as status with the stamp of this request.  A
\* single-order request answered with an error (order not found,
\* transition refused, storage failure) made no attempt and wrote
\* nothing, and no attempt of a bulk request names an order whose update
\* failed.
C33_CommitBeforeNotify ==
    (IsRouteUpdate \/ IsBulk)
    => /\ \A k \in 1..Len(last.attempts) :
             LET a == last.attempts[k] IN
             /\ a.event = last.new_status
             /\ last.pre[a.order_id].exists
             /\ Permitted(last.pre[a.order_id].status, a.event)
             /\ orders[a.order_id].status = a.event
             /\ orders[a.order_id].updated_at = now
             /\ orders[a.order_id].updated_by = "ADK-002"
       /\ (IsRouteUpdate /\ last.response.code # 200)
          => (last.attempts = <<>> /\ orders = last.pre)
       /\ IsBulk
          => \A i \in Members :
                ~last.results[i].success
                => /\ \A k \in 1..Len(last.attempts) :
                         last.attempts[k].order_id # last.order_ids[i]
                   /\ orders[last.order_ids[i]] = last.pre[last.order_ids[i]]
       /\ published = last.pre_pub \o Delivered(last.attempts)

\* C33 witness: a bulk request to shipped over an order stored as packed
\* and an order stored as validated: the first was written and its
\* message published, the second was refused and no attempt names it.
C33_Witness ==
    /\ IsBulk
    /\ last.new_status = "shipped"
    /\ Len(last.order_ids) = 2
    /\ last.pre[last.order_ids[1]].exists
    /\ last.pre[last.order_ids[1]].status = "packed"
    /\ last.pre[last.order_ids[2]].exists
    /\ last.pre[last.order_ids[2]].status = "validated"
    /\ Len(last.attempts) = 1
    /\ last.attempts[1].order_id = last.order_ids[1]
    /\ orders[last.order_ids[1]].status = "shipped"
    /\ published = Append(last.pre_pub,
                          [order_id |-> last.order_ids[1],
                           event |-> "shipped", agent |-> "ADK-002"])

\* The messages on the topic that tell event of order order_id.
Notifications(order_id, event) ==
    {k \in 1..Len(published) :
        published[k].order_id = order_id /\ published[k].event = event}

\* C34: over a sequential run of single-order and bulk updates at most
\* one shipped message and at most one delivered message is published
\* per order; applying shipped to an order that is shipped publishes no
\* second message.
C34_AtMostOneNotification ==
    \A order_id \in ORDER_IDS, event \in {"shipped", "delivered"} :
       Cardinality(Notifications(order_id, event)) <= 1

\* C34: a single-order update to shipped of an order stored as shipped
\* succeeded and put a second shipped message of that order on the topic.
C34_SecondShipped ==
    /\ UpdateOfStored
    /\ last.pre[Target].status = "shipped"
    /\ last.new_status = "shipped"
    /\ ~last.raised
    /\ Cardinality(Notifications(Target, "shipped")) = 2
    /\ Len(published) = Len(last.pre_pub) + 1

\* How far along the policy graph a status lies: the length of the
\* longest chain of status changes that ends in it.
Rank(status) ==
    CASE status = "validated" -> 0
      [] status = "processing" -> 1
      [] status = "paid" -> 2
      [] status = "exception" -> 2
      [] status = "picking" -> 3
      [] status = "packed" -> 4
      [] status = "shipped" -> 5
      [] status = "delivered" -> 6

\* C35: the policy graph has no cycle but the self-loops.  In a
\* sequential run of single-order and bulk updates every change of the
\* stored status of an order takes it further along the graph, so the
\* order never returns to a status it has left, and as no status lies
\* further than 6 changes along, its status changes at most 6 times.
C35_NoWayBack ==
    [][\A o \in ORDER_IDS :
          (orders[o].exists /\ orders'[o].status # orders[o].status)
          => /\ Rank(orders'[o].status) > Rank(orders[o].status)
             /\ Rank(orders[o].status) >= 0
             /\ Rank(orders'[o].status) <= 6]_vars

\* C35 witness: an order has gone the whole way to delivered, its last
\* change being from shipped, and a request to take it back to shipped
\* was refused.
C35_Witness ==
    /\ UpdateOfStored
    /\ last.pre[Target].status = "delivered"
    /\ last.pre[Target].updated_by = "ADK-002"
    /\ last.new_status = "shipped"
    /\ last.raised
    /\ orders[Target].status = "delivered"

\* C36: under any interleaving of concurrent single-order updates, the
\* document of an order holds delivered only when it has held shipped,
\* and shipped only when it has held packed; an order that has reached
\* delivered has passed through paid, picking, packed and shipped.
C36_DeliveredAfterShipped ==
    \A o \in ORDER_IDS :
       /\ orders[o].exists => orders[o].status \in seen[o]
       /\ "delivered" \in seen[o] => "shipped" \in seen[o]
       /\ "shipped" \in seen[o] => "packed" \in seen[o]
       /\ "delivered" \in seen[o]
          => {"paid", "picking", "packed", "shipped"} \subseteq seen[o]

\* C36 witness: a call that read shipped wrote delivered over the status
\* processing, which a call that had read validated wrote in between.
C36_Witness ==
    /\ IsUpdate
    /\ last.new_status = "delivered"
    /\ last.pre[Target].status = "processing"
    /\ orders[Target].status = "delivered"
    /\ {"paid", "picking", "packed", "shipped"} \subseteq seen[Target]

\* ---- other writers of the order store

\* C37: a resolution request moves an order to validated only when the
\* order is in exception; requested for an order in any other status, it
\* leaves that status as it is.
C37_ResolvesOnlyExceptions ==
    [][\A o \in ORDER_IDS :
          (/\ orders[o].exists
           /\ orders[o].status # "exception"
           /\ orders' = resolve_exception(orders, o, "", now))
          => orders'[o].status = orders[o].status]_vars

\* Two stored orders are of the same customer email and total amount and
\* were created less than 24 hours apart.
SameSubmission(a, b) ==
    /\ orders[a].exists
    /\ orders[b].exists
    /\ orders[a].customer.email = orders[b].customer.email
    /\ orders[a].payment.amount = orders[b].payment.amount
    /\ orders[a].created_at - orders[b].created_at < DUPLICATE_WINDOW
    /\ orders[b].created_at - orders[a].created_at < DUPLICATE_WINDOW

\* C38: of two intake submissions with the same customer email and the
\* same total amount, made less than 24 hours apart, at most one is
\* stored as validated, however concurrent intake requests interleave.
C38_OneValidatedPerDuplicate ==
    \A a, b \in ORDER_IDS :
       (a # b /\ SameSubmission(a, b))
       => ~(orders[a].status = "validated" /\ orders[b].status = "validated")

\* C38: two requests of ann's for amount 25 were validated before either
\* was saved; they were saved one millisecond apart and both are stored
\* as validated.
C38_BothValidated ==
    /\ last.op = "intake"
    /\ SameSubmission("ORD-1", "ORD-2")
    /\ orders["ORD-1"].status = "validated"
    /\ orders["ORD-2"].status = "validated"
    /\ orders["ORD-1"].customer.email = "ann@example.com"
    /\ orders["ORD-2"].created_at = orders["ORD-1"].created_at + 1
    /\ ~orders["ORD-3"].exists

\* The fields of an order document that a status update writes.
WRITTEN_FIELDS == {"status", "updated_at", "updated_by"}

\* The document under order id o is as it was before the request, but
\* for its status, updated_at and updated_by.
OnlyStatusWritten(o) ==
    /\ DOMAIN orders[o] = DOMAIN last.pre[o]
    /\ \A f \in DOMAIN orders[o] \ WRITTEN_FIELDS :
          orders[o][f] = last.pre[o][f]

\* C39: a single-order update of order A changes nothing but A's status,
\* updated_at and updated_by; a bulk update changes only orders whose
\* ids are in its list, and of those only the same three fields; every
\* other order document and every batch document is as before.
C39_FrameOfUpdates ==
    /\ IsUpdate
       => /\ \A o \in ORDER_IDS \ {Target} : orders[o] = last.pre[o]
          /\ OnlyStatusWritten(Target)
    /\ IsBulk
       => \A o \in ORDER_IDS :
             IF \E i \in Members : last.order_ids[i] = o
             THEN OnlyStatusWritten(o)
             ELSE orders[o] = last.pre[o]
    /\ (IsUpdate \/ IsBulk) => batches = last.pre_batches

\* C39 witness: a bulk update of ORD-1 alone moved it from validated to
\* processing; ORD-2, which the stored batch lists beside ORD-1, is as
\* it was, and so is the batch.
C39_Witness ==
    /\ IsBulk
    /\ last.order_ids = <<"ORD-1">>
    /\ last.pre["ORD-1"].status = "validated"
    /\ orders["ORD-1"].status = "processing"
    /\ orders["ORD-1"].updated_at # last.pre["ORD-1"].updated_at
    /\ orders["ORD-1"].created_at = last.pre["ORD-1"].created_at
    /\ orders["ORD-2"] = last.pre["ORD-2"]
    /\ batches["BATCH-1"].exists
    /\ batches["BATCH-1"].order_ids = <<"ORD-2", "ORD-1">>
    /\ batches = last.pre_batches

====
